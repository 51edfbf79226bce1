---------------------------- MODULE WalletStore -----------------------------
(***************************************************************************)
(* What the other components take wallet.json to be: one cell that a save  *)
(* replaces as a whole.  A loss of power may take the cell back to a       *)
(* content it had since the directory was last written out, never to       *)
(* anything else.  NoteWallet and AccountIndexes stand on this module: their*)
(* saves are its Put.                                                      *)
(***************************************************************************)
CONSTANTS
    Secrets,     \* what a wallet file can say
    NoWallet     \* there is no wallet file

VARIABLES
    store,       \* what a load would return
    past         \* contents that a loss of power may bring back

storeVars == <<store, past>>

StoreInit ==
    /\ store = NoWallet
    /\ past = {NoWallet}

(* A save: the file now says s, and goes on being about the same mnemonic.  *)
Put(s) ==
    /\ store # NoWallet => s.seed = store.seed
    /\ store' = s
    /\ past' = past \cup {s}

(* The directory was written out.                                           *)
Settle ==
    /\ past' = {store}
    /\ UNCHANGED store

PowerLost ==
    /\ store' \in past
    /\ past' = {store'}

StoreNext == (\E s \in Secrets : Put(s)) \/ Settle \/ PowerLost

StoreSpec == StoreInit /\ [][StoreNext]_storeVars
=============================================================================
