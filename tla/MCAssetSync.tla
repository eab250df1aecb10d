----------------------------- MODULE MCAssetSync -----------------------------
(***************************************************************************)
(* Small instances of AssetSync; the workers are model values.             *)
(***************************************************************************)
EXTENDS AssetSync
=============================================================================
