------------------------------ MODULE MCStartup ------------------------------
\* Model checking of Startup; its constants are plain values.
EXTENDS Startup
==============================================================================
