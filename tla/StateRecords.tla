---------------------------- MODULE StateRecords ----------------------------
(***************************************************************************)
(* The data that the state store of hermes-affect keeps, reduced to what   *)
(* the store itself looks at: the identity a file claims, its revision and *)
(* the time of its last update.  The affect values are left out; the       *)
(* modules that need them add their own.                                   *)
(*                                                                         *)
(* An identity stands for a (profile_id, session_id) pair.  Paths are the  *)
(* file names StateStore.state_path builds, and several identities may     *)
(* share one, because _path_component replaces every character outside     *)
(* [alnum._-] by "_" and cuts at 160 characters.                           *)
(***************************************************************************)
EXTENDS Naturals

CONSTANTS
  Identities,  \* (profile_id, session_id) pairs
  Paths,       \* state file names under the store's root
  PathOf,      \* StateStore.state_path
  MaxAge,      \* state_gc_days, in ticks of the clock
  Missing,     \* there is no file at the path
  Malformed    \* the file is there and AffectState.from_dict rejects it

ASSUME PathOfAssumption == PathOf \in [Identities -> Paths]
ASSUME MaxAgeAssumption == MaxAge \in Nat \ {0}

(***************************************************************************)
(* A persisted AffectState.  "muts" is an auxiliary count that the program *)
(* does not have: the exact mutations this content has been through since  *)
(* the file was last written as a whole.                                   *)
(***************************************************************************)
States == [id : Identities, rev : Nat, at : Nat, muts : Nat]

Contents == States \cup {Missing, Malformed}

ASSUME ContentsAssumption == {Missing, Malformed} \cap States = {}

\* AffectState.initial (revision 0) and continued_from (the parent's
\* revision): the whole-file contents StateStore.save is called with.
Fresh(i, r, t) == [id |-> i, rev |-> r, at |-> t, muts |-> 0]

\* What any mutation callback that reports a change does to the record:
\* updated_at becomes the present, the revision grows by "bump" (0 for a
\* lifecycle timestamp, 1 for turns, edits, overrides and resets).
Changed(s, bump, t) ==
  [id |-> s.id, rev |-> s.rev + bump, at |-> t, muts |-> s.muts + 1]

\* c is the outcome of one such mutation of s, made no later than t.
ChangeOf(s, c, t) ==
  /\ c \in States
  /\ c.id = s.id
  /\ c.rev \in {s.rev, s.rev + 1}
  /\ s.at <= c.at /\ c.at <= t
  /\ c.muts = s.muts + 1

\* StateStore._updated_at(state) < cutoff, with cutoff = t - MaxAge.
Expired(c, t) == c \in States /\ c.at + MaxAge < t
=============================================================================
