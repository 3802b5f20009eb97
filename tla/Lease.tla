-------------------------------- MODULE Lease --------------------------------
(***************************************************************************)
(* What the sequencers rely on when they use the lockout of redis.go: one  *)
(* of them at a time has it, and it is passed on only after its holder     *)
(* knows that it is over.  LockoutRedis implements this, LockoutManager    *)
(* is written over it.                                                     *)
(***************************************************************************)
CONSTANTS
  Sequencers,
  NoOne             \* nobody's name: the key is absent

VARIABLES
  key,              \* whose name is in redis
  has               \* the sequencers who count on having the lockout

leaseVars == <<key, has>>

LeaseInit == key = NoOne /\ has = {}

\* s acquires the lockout, or renews it.
Grant(s) == key \in {NoOne, s} /\ has \subseteq {s} /\ key' = s /\ has' = {s}

\* The key of s is set and s does not know.
Stray(s) == key = NoOne /\ has = {} /\ key' = s /\ UNCHANGED has

\* s gives the lockout up, or its time is over, or s forgets it.
Lapse(s) == s \in has /\ has' = has \ {s} /\ UNCHANGED key

\* The key is deleted or expires, after the lockout.
Expire == key # NoOne /\ has = {} /\ key' = NoOne /\ UNCHANGED has

LeaseNext == Expire \/ \E s \in Sequencers : Grant(s) \/ Stray(s) \/ Lapse(s)

LeaseSpec == LeaseInit /\ [][LeaseNext]_leaseVars
=============================================================================
