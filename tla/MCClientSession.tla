--------------------------- MODULE MCClientSession ---------------------------
(***************************************************************************)
(* Constants for TLC: a person with a Google and a Facebook identity, who  *)
(* has an account without a password, or none beside one with a password.  *)
(***************************************************************************)
EXTENDS ClientSession

CONSTANTS u1, u2, google, facebook

MCUsers == {u1, u2}
MCProviders == {google, facebook}
MCIdentities == {<<google, u1>>, <<facebook, u1>>}
MCCallers == Calls \union {Page}
Row(exists, password, session) == [exists |-> exists, password |-> password, session |-> session]
Only(u, password) == [v \in MCUsers |-> IF v = u THEN Row(TRUE, password, 1) ELSE Row(FALSE, 0, 0)]
MCBeginnings ==
  {[account |-> Only(u1, 0), links |-> {<<u1, <<google, u1>>>>, <<u1, <<facebook, u1>>>>}],
   [account |-> Only(u2, 1), links |-> {}]}
=============================================================================
