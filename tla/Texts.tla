-------------------------------- MODULE Texts --------------------------------
(***************************************************************************)
(* What is typed and parsed: module paths and versions, the names of new   *)
(* modules, and go.mod files.  The three share nothing.                    *)
(***************************************************************************)
EXTENDS Versions, Typos, GoModFile

TextsSpec == VersionsSpec /\ TyposSpec /\ GoModSpec

-----------------------------------------------------------------------------
\* Paths, versions, names and go.mod files mean one thing.
TextsMeanOneThing == PathsAreNotConfused /\ VersionsAreOrdered /\ TyposAreFound /\ GoModIsRead
=============================================================================
