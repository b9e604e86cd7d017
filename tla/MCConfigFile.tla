---------------------------- MODULE MCConfigFile ----------------------------
(***************************************************************************)
(* A bounded instance of ConfigFile.  Versions and stamps are only ever    *)
(* compared with each other, so that states that differ in the number of   *)
(* saves behind them, and in nothing else, have the same behaviours and    *)
(* count as one; so do states that differ in an entry of the cache with an *)
(* older stamp than the file's, which no load uses again.                  *)
(***************************************************************************)
EXTENDS ConfigFile

Age(version) == file.version - version

UpToVersions ==
  <<edition, life, [file EXCEPT !.version = 0, !.stamp = Age(@)], tmp, lock, saver,
    IF cache.stamp = file.stamp THEN <<cache.table, Age(cache.since)>> ELSE <<>>,
    IF reader = AtRest THEN <<>>
    ELSE <<reader.pc, reader.table, Age(reader.since), Age(reader.from),
           IF reader.pc = "loaded" THEN 0 ELSE Age(reader.stamp)>>,
    owners, bump, trouble>>
=============================================================================
