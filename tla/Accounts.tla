------------------------------- MODULE Accounts -------------------------------
(***************************************************************************)
(* The user's own accounts: the private key and the instance tag of each,  *)
(* and the two files that keep them from one run to the next.  Both are    *)
(* made when they are first needed, and each time one is made its whole    *)
(* file is written again in place.                                         *)
(*                                                                         *)
(* Modelled from OTRL/privkey.c (generate_start, generate_finish, read),   *)
(* OTRL/instag.c and the callbacks of wtwOTRmessaging.cpp that use them.   *)
(* A key is made at once, in the thread of the callback.  An account never *)
(* has two keys or two tags at a time, so neither has a name here.         *)
(***************************************************************************)

CONSTANT Accounts

VARIABLES
  privkeys,  \* the accounts with a private key
  pending,   \* those on the list of keys "in progress"
  keyfile,   \* the accounts in the file of the keys, if it can be parsed
  instags,   \* the accounts with an instance tag
  tagfile,   \* the lines of the file of the tags
  refused    \* history: accounts whose file could not be opened since the start

Init ==
  /\ privkeys = {} /\ pending = {} /\ keyfile = {}
  /\ instags = {} /\ tagfile = {}
  /\ refused = {}

\* The accounts written by otrl_privkey_generate_finish_FILEp, for a key of a.
OnlyNew(a) == {a}
Rewritten(a) == (privkeys \ {a}) \cup {a}

\* OTRL_create_privkey_cb.  The account is on the list while its key is made and
\* written; if the file cannot be opened otrl_privkey_generate_finish returns before
\* it takes the account off again, and until the program ends every attempt is
\* answered that a key is being made.  A file that was cut off is no S-expression:
\* not one of its keys can be read.
MakeKey(a, outcome) ==
  /\ a \notin privkeys /\ a \notin pending
  /\ \/ /\ outcome = "done"
        /\ keyfile' = Rewritten(a)
        /\ privkeys' = keyfile'
        /\ UNCHANGED <<pending, refused>>
     \/ /\ outcome = "unopened"
        /\ pending' = pending \cup {a}
        /\ refused' = refused \cup {a}
        /\ UNCHANGED <<privkeys, keyfile>>
     \/ /\ outcome = "cut"
        /\ keyfile' = {}
        /\ UNCHANGED <<privkeys, pending, refused>>
  /\ UNCHANGED <<instags, tagfile>>

\* OTRL_create_instag_cb.  Each line of the file is read by itself.
MakeTag(a, outcome) ==
  /\ a \notin instags
  /\ \/ /\ outcome = "done"
        /\ instags' = instags \cup {a}
        /\ tagfile' = instags'
        /\ UNCHANGED refused
     \/ /\ outcome = "unopened"
        /\ refused' = refused \cup {a}
        /\ UNCHANGED <<instags, tagfile>>
     \/ /\ outcome = "cut"
        /\ tagfile' \in SUBSET (instags \cup {a})
        /\ UNCHANGED <<instags, refused>>
  /\ UNCHANGED <<privkeys, pending, keyfile>>

\* otrl_privkey_read and otrl_instag_read as the program starts.
Read ==
  /\ privkeys' = keyfile /\ pending' = {}
  /\ instags' = tagfile
  /\ refused' = {}
  /\ UNCHANGED <<keyfile, tagfile>>

-----------------------------------------------------------------------------
\* Types.
TypeOK ==
  /\ privkeys \subseteq Accounts /\ keyfile \subseteq Accounts
  /\ instags \subseteq Accounts /\ tagfile \subseteq Accounts
  /\ pending \subseteq Accounts /\ refused \subseteq Accounts
=============================================================================
