---------------------------- MODULE TunnelQuota ----------------------------
(***************************************************************************)
(* The active-tunnel half of the usage tracker (internal/usage/tracker.go):*)
(* how many tunnels a user may hold.  A registration reserves a place,     *)
(* then either confirms it as an active tunnel or gives it back; a resumed *)
(* tunnel is made active without a place.  Every operation holds           *)
(* Tracker.mu for its whole body.                                          *)
(*                                                                         *)
(* The user is never the empty string: the daemon always configures a      *)
(* token validator, so the early returns for an unknown user do not occur. *)
(* ControlServer instantiates these operations where the connection        *)
(* handlers call them, and says what it assumes of the constants;          *)
(* UsageTracker has the accounting, which they only touch.                 *)
(***************************************************************************)
EXTENDS Naturals, FiniteSets

CONSTANTS
  Users,            \* user ids
  Sids,             \* tunnel ids
  MaxActiveTunnels  \* plan limit on active tunnels per user; 0 means no limit

VARIABLES
  activeTunnels,    \* [Users -> SUBSET Sids]
  reservedTunnels   \* [Users -> Nat]

qvars == <<activeTunnels, reservedTunnels>>

QuotaInit ==
  /\ activeTunnels = [u \in Users |-> {}]
  /\ reservedTunnels = [u \in Users |-> 0]

TunnelLoad(u) == Cardinality(activeTunnels[u]) + reservedTunnels[u]

\* currentActive + 1 does not exceed the limit, when there is one
TunnelRoom(u) ==
  MaxActiveTunnels = 0 \/ TunnelLoad(u) + 1 <= MaxActiveTunnels

\* the guarded decrement of ReleaseTunnelReservation and ConfirmTunnel
Unreserved(u) ==
  [reservedTunnels EXCEPT ![u] = IF @ > 0 THEN @ - 1 ELSE @]

ReserveTunnel(u) ==
  /\ TunnelRoom(u)
  /\ reservedTunnels' = [reservedTunnels EXCEPT ![u] = @ + 1]
  /\ UNCHANGED activeTunnels

ReleaseTunnelReservation(u) ==
  /\ reservedTunnels' = Unreserved(u)
  /\ UNCHANGED activeTunnels

ConfirmTunnel(u, s) ==
  /\ reservedTunnels' = Unreserved(u)
  /\ activeTunnels' = [activeTunnels EXCEPT ![u] = @ \cup {s}]

\* no check of the limit: a resumed tunnel keeps the place it had
RestoreTunnel(u, s) ==
  /\ activeTunnels' = [activeTunnels EXCEPT ![u] = @ \cup {s}]
  /\ UNCHANGED reservedTunnels

TrackTunnelClosed(u, s) ==
  /\ activeTunnels' = [activeTunnels EXCEPT ![u] = @ \ {s}]
  /\ UNCHANGED reservedTunnels

\* a new process starts with empty maps
QuotaRestart ==
  /\ activeTunnels' = [u \in Users |-> {}]
  /\ reservedTunnels' = [u \in Users |-> 0]
=============================================================================
