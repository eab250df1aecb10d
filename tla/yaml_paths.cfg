CONSTANTS
  Requests <- AllRequests
  NameOrder <- Names
  Dirs <- SomeDirs
  Files <- SomeFiles
  TomlTasks <- Toml
  Links <- Link
  Home <- HomeDir
  Cwd <- CwdDir
  WorkerFiles <- OwnFiles
  SyncRoot <- Sync
  BatchRoot <- Batch
  UvBinary <- Uv
  Locals = {TRUE, FALSE}
SPECIFICATION Spec
INVARIANTS TasksAreThere BindsAreThere RefsFollow
