CONSTANTS
  Requests <- Spelled
  NameOrder <- Names
  Dirs <- SomeDirs
  Files <- SomeFiles
  TomlTasks <- Toml
  Links <- Link
  Home <- HomeDir
  Cwd <- CwdDir
  WorkerFiles <- OwnFiles
  SyncRoot <- Sync
  BatchRoot <- Batch
  UvBinary <- Uv
  Locals = {FALSE}
SPECIFICATION Spec
INVARIANTS NoMissingMount
