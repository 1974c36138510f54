--------------------------- MODULE MCServiceManager ---------------------------
\* Model checking of ServiceManager; its constants are plain values.
EXTENDS ServiceManager
==============================================================================
