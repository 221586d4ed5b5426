--------------------------- MODULE AffectRegister ---------------------------
(***************************************************************************)
(* What StateStore promises to its callers: per path one register that is  *)
(* replaced as a whole, read-modified-written atomically, and discarded    *)
(* only when it is older than the retention limit.  There are no workers,  *)
(* no lock files, no local copies and no crashes here: JsonStore, which    *)
(* has them all, is shown to implement this module.                        *)
(***************************************************************************)
EXTENDS StateRecords

VARIABLES
  reg,  \* path -> content
  now   \* the clock updated_at is taken from

rvars == <<reg, now>>

RegisterInit ==
  /\ reg \in [Paths -> Contents]
  /\ now \in Nat

\* A whole state is written over whatever was there.
Put(i) ==
  LET new == reg'[PathOf[i]] IN
  /\ new \in States
  /\ new = Fresh(i, new.rev, new.at)
  /\ new.at <= now
  /\ reg' = [reg EXCEPT ![PathOf[i]] = new]
  /\ UNCHANGED now

\* One exact mutation: it applies to the identity it names and to the
\* content that is there at that moment, the revision grows by at most one
\* and the update time never moves back.
Mutate(i) ==
  /\ reg[PathOf[i]] \in States
  /\ reg[PathOf[i]].id = i
  /\ ChangeOf(reg[PathOf[i]], reg'[PathOf[i]], now)
  /\ reg' = [reg EXCEPT ![PathOf[i]] = reg'[PathOf[i]]]
  /\ UNCHANGED now

\* Retention removes an expired state, and never a malformed file.
Discard(p) ==
  /\ Expired(reg[p], now)
  /\ reg' = [reg EXCEPT ![p] = Missing]
  /\ UNCHANGED now

Advance ==
  /\ now' = now + 1
  /\ UNCHANGED reg

RegisterNext ==
  \/ \E i \in Identities : Put(i) \/ Mutate(i)
  \/ \E p \in Paths : Discard(p)
  \/ Advance

RegisterSpec == RegisterInit /\ [][RegisterNext]_rvars
=============================================================================
