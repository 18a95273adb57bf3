----------------------------- MODULE EventPool ------------------------------
(***************************************************************************)
(* What the database pool (CacheServer/db_conn_pool.h) is to the logic     *)
(* thread of the cache server: events go in, each is answered at most      *)
(* once, in any order, and events that nobody wants back are freed.        *)
(*                                                                         *)
(* One thing more belongs to the picture.  An event may get lost, but only *)
(* while another event with its m_iEventId is in work, or after one got    *)
(* lost: then it is chained in the sequence map, and no thread ever looks  *)
(* there.                                                                  *)
(***************************************************************************)
EXTENDS Sequences, Naturals

CONSTANTS
  Events,      \* DBEvent objects; each is allocated, pushed and ends once
  EventIdOf,   \* m_iEventId of an event
  Returnable   \* events pushed with bReturnable

VARIABLES
  fresh,       \* not pushed yet
  pending,     \* pushed and not handed back
  returned,    \* handed back, not collected yet
  consumed,    \* collected by the logic thread
  freed,
  lost,
  open         \* until Destroy

poolVars == <<fresh, pending, returned, consumed, freed, lost, open>>

InList(s) == {s[i] : i \in 1 .. Len(s)}

PoolInit ==
  /\ fresh = Events
  /\ pending = {} /\ consumed = {} /\ freed = {} /\ lost = {}
  /\ returned = <<>>
  /\ open = TRUE

Push(e) ==
  /\ open /\ e \in fresh
  /\ fresh' = fresh \ {e}
  /\ pending' = pending \cup {e}
  /\ UNCHANGED <<returned, consumed, freed, lost, open>>

Return(e) ==
  /\ e \in pending \cap Returnable
  /\ pending' = pending \ {e}
  /\ returned' = Append(returned, e)
  /\ UNCHANGED <<fresh, consumed, freed, lost, open>>

FreeUnanswered(e) ==
  /\ e \in pending \ Returnable
  /\ pending' = pending \ {e}
  /\ freed' = freed \cup {e}
  /\ UNCHANGED <<fresh, returned, consumed, lost, open>>

\* An event that may stand in the way of e in the sequence map.
Rival(e, f) == f # e /\ EventIdOf[f] = EventIdOf[e]

Lose(e) ==
  /\ e \in pending
  /\ \E f \in pending \cup lost : Rival(e, f)
  /\ pending' = pending \ {e}
  /\ lost' = lost \cup {e}
  /\ UNCHANGED <<fresh, returned, consumed, freed, open>>

Collect ==
  /\ open /\ returned # <<>>
  /\ consumed' = consumed \cup {Head(returned)}
  /\ returned' = Tail(returned)
  /\ UNCHANGED <<fresh, pending, freed, lost, open>>

Close ==
  /\ open
  /\ open' = FALSE
  /\ freed' = freed \cup pending \cup InList(returned)
  /\ pending' = {}
  /\ returned' = <<>>
  /\ UNCHANGED <<fresh, consumed, lost>>

\* What the threads of the pool do on their own.
Work == \E e \in Events : Return(e) \/ FreeUnanswered(e) \/ Lose(e)

PoolNext == (\E e \in Events : Push(e)) \/ Work \/ Collect \/ Close

PoolSpec == PoolInit /\ [][PoolNext]_poolVars
=============================================================================
