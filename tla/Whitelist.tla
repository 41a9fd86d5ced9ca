----------------------------- MODULE Whitelist -----------------------------
(***************************************************************************)
(* The wallets that an app may withdraw to.  To add or to remove one takes *)
(* a one-time password, which is looked at and cleared in the document of  *)
(* the merchant, while the list is a part of the document of the app: each *)
(* call reads both and writes both, with awaits in between.                *)
(*                                                                         *)
(* Mongoose sends an addition as a $push, which raises the version of the  *)
(* document, and a removal as a whole new list, on condition that the      *)
(* version is the one that was read.                                       *)
(***************************************************************************)
EXTENDS Naturals, FiniteSets

CONSTANTS
  Entries,    \* an address together with the network it is whitelisted for
  AddressOf,  \* AddressOf[w]: the address of entry w
  NoNetwork,  \* entries without a network, which the request may leave out
  Editors,    \* activations of addWhitelistWallet and removeWhitelistWallet
  MaxCodes    \* bound: passwords that are asked for

ASSUME WhitelistAssumption ==
  IsFiniteSet(Editors) /\ NoNetwork \subseteq Entries /\ MaxCodes \in Nat

VARIABLES
  listed,   \* listed[w]: how often entry w is in app.whitelistedWallets
  version,  \* __v of the document of the app
  code,     \* merchant.otp, or 0: passwords are numbered
  issued,   \* passwords sent so far
  editor,   \* what each activation knows
  uses,     \* history: uses[k]: changes that password k has bought
  wanted    \* history: entries whose last acknowledged change was an addition

whitelistVars == <<listed, version, code, issued, editor, uses, wanted>>

IdleEditor == [pc |-> "idle", kind |-> "add", entry |-> {}, code |-> 0,
               copy |-> [w \in Entries |-> 0], version |-> 0]

EditorState ==
  [pc : {"idle", "app", "clear", "save"}, kind : {"add", "remove"},
   entry : SUBSET Entries, code : 0..MaxCodes,
   copy : [Entries -> Nat], version : Nat]

WhitelistTypeOK ==
  /\ listed \in [Entries -> Nat] /\ version \in Nat
  /\ code \in 0..MaxCodes /\ issued \in 0..MaxCodes
  /\ editor \in [Editors -> EditorState]
  /\ uses \in [1..MaxCodes -> Nat]
  /\ wanted \subseteq Entries

WhitelistInit ==
  /\ listed = [w \in Entries |-> 0] /\ version = 0
  /\ code = 0 /\ issued = 0
  /\ editor = [e \in Editors |-> IdleEditor]
  /\ uses = [k \in 1..MaxCodes |-> 0] /\ wanted = {}

-----------------------------------------------------------------------------
\* requestWhitelistOtp: a new password replaces the one before.
RequestCode ==
  /\ issued < MaxCodes
  /\ issued' = issued + 1 /\ code' = issued + 1
  /\ UNCHANGED <<listed, version, editor, uses, wanted>>

\* Ten minutes pass.
CodeExpires ==
  /\ code # 0 /\ code' = 0
  /\ UNCHANGED <<listed, version, issued, editor, uses, wanted>>

\* The merchant is read: "Invalid or expired OTP" ends any other call.
ReadMerchant(e, kind, w) ==
  /\ editor[e].pc = "idle" /\ code # 0
  /\ editor' = [editor EXCEPT ![e] =
       [IdleEditor EXCEPT !.pc = "app", !.kind = kind, !.entry = {w}, !.code = code]]
  /\ UNCHANGED <<listed, version, code, issued, uses, wanted>>

ReadList(e) ==
  /\ editor[e].pc = "app"
  /\ editor' = [editor EXCEPT ![e].pc = "clear", ![e].copy = listed, ![e].version = version]
  /\ UNCHANGED <<listed, version, code, issued, uses, wanted>>

\* $unset, also of a password that was sent in the meantime.
ClearCode(e) ==
  /\ editor[e].pc = "clear"
  /\ code' = 0
  /\ editor' = [editor EXCEPT ![e].pc = "save"]
  /\ UNCHANGED <<listed, version, issued, uses, wanted>>

-----------------------------------------------------------------------------
Entry(e) == CHOOSE w \in editor[e].entry : TRUE

\* "Address already whitelisted": without a network nothing is found, because
\* it is stored as "" and compared with undefined.
Exists(e) == Entry(e) \notin NoNetwork /\ editor[e].copy[Entry(e)] > 0

Namesakes(w) == {v \in Entries : AddressOf[v] = AddressOf[w]}

\* Mutant: the list is replaced whatever the version is.
MCurrent(e) == TRUE

Current(e) == editor[e].version = version

Acknowledged(e) ==
  /\ uses' = [uses EXCEPT ![editor[e].code] = @ + 1]
  /\ version' = version + 1
  /\ editor' = [editor EXCEPT ![e] = IdleEditor]
  /\ UNCHANGED <<code, issued>>

SaveAddition(e) ==
  /\ editor[e].pc = "save" /\ editor[e].kind = "add" /\ ~Exists(e)
  /\ listed' = [listed EXCEPT ![Entry(e)] = @ + 1]
  /\ wanted' = wanted \cup {Entry(e)}
  /\ Acknowledged(e)

\* The address leaves the list with all its networks.
SaveRemoval(e) ==
  /\ editor[e].pc = "save" /\ editor[e].kind = "remove"
  /\ \E w \in Namesakes(Entry(e)) : editor[e].copy[w] > 0
  /\ Current(e)
  /\ listed' = [w \in Entries |-> IF w \in Namesakes(Entry(e)) THEN 0 ELSE editor[e].copy[w]]
  /\ wanted' = wanted \ Namesakes(Entry(e))
  /\ Acknowledged(e)

\* An answer with an error, or a crash, at any point: also when the address is
\* there already, is not there, or the version is another one.
EditStops(e) ==
  /\ editor[e].pc # "idle"
  /\ editor' = [editor EXCEPT ![e] = IdleEditor]
  /\ UNCHANGED <<listed, version, code, issued, uses, wanted>>

WhitelistNext ==
  \/ RequestCode \/ CodeExpires
  \/ \E e \in Editors :
       \/ \E kind \in {"add", "remove"}, w \in Entries : ReadMerchant(e, kind, w)
       \/ ReadList(e) \/ ClearCode(e)
       \/ SaveAddition(e) \/ SaveRemoval(e) \/ EditStops(e)

WhitelistSpec == WhitelistInit /\ [][WhitelistNext]_whitelistVars

-----------------------------------------------------------------------------
(* Properties.                                                             *)

\* What was acknowledged stays: an entry is listed if and only if the last
\* acknowledged change of it was its addition, however the calls overlap.  A
\* removal writes back the whole list that it has read.
AcknowledgedStays == \A w \in Entries : w \in wanted <=> listed[w] > 0

\* A password buys one change, or one for each call that had looked at it
\* before it was cleared.
CodesAreSpent == \A k \in 1..MaxCodes : uses[k] <= Cardinality(Editors)

\* An entry with a network is listed once, or once for each call that had read
\* the list before it was added.
FewDuplicates == \A w \in Entries \ NoNetwork : listed[w] <= Cardinality(Editors)

WhitelistHolds == AcknowledgedStays /\ CodesAreSpent /\ FewDuplicates
=============================================================================
