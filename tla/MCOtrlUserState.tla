--------------------------- MODULE MCOtrlUserState ---------------------------
(* OtrlUserState for TLC: one account writes to a correspondent with an old  *)
(* client, another one to a correspondent with a new client.                 *)
EXTENDS OtrlUserState, TLC

CONSTANTS OldClient, NewClient, FirstAccount, SecondAccount

AccountOfEach == OldClient :> FirstAccount @@ NewClient :> SecondAccount
=============================================================================
