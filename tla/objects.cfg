CONSTANTS
  Interfaces <- IdlInterfaces
  CoreObject = "CoreObject"
  Base <- IdlBase
  Methods <- IdlMethods
  Classes = {"Lease", "OtherLease", "Generator"}
  Implements <- ServiceClasses
  InitialProxy = "ServiceManager"
  Called = {"ServiceLease", "RandomGenerator"}
  Versions = {1, 2}
  MaxCalls = 2
SPECIFICATION Spec
INVARIANTS
  ObjectsTypeOK
  OneInstance
  ProxyFound
  CallReachesMethod
  CallReachesItsClass
PROPERTIES
  StableObjects
