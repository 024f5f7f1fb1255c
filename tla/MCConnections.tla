---------------------------- MODULE MCConnections ----------------------------
(* Instances of Connections for TLC. *)
EXTENDS ConnectionDevices, TLC

CONSTANTS alice, bob, c1, c2

\* Two devices of one user.
OwnTokens == c1 :> {alice} @@ c2 :> {alice}

\* One client presents the tokens of two users, one after the other.
SwitchedTokens == c1 :> {alice, bob} @@ c2 :> {alice}
=============================================================================
