------------------------------- MODULE Keystore -------------------------------
(***************************************************************************)
(* The keystore directory that the terminals of a user share (packages/cli:*)
(* cli/commands/auth.ts, cli/keystore/file.ts), and how a command finds the*)
(* account it signs with (commands/auth.ts, cli/context.ts).  The directory*)
(* holds one encrypted file per account and the file .default, which names *)
(* one of them.  auth set, use, remove and clear change both without a     *)
(* lock.  An account is the name it is stored under.                       *)
(***************************************************************************)
CONSTANTS
    Procs,          \* terminals
    Names,          \* accounts that may be stored
    Default         \* the name a command means when it is given none

NoName == "none"
Secret == "secret"  \* the account of a mnemonic or key URI outside the keystore
Dev    == "dev"     \* the shared development account
Signers == Names \union {Secret, Dev}

ASSUME NamesAssumption == Default \in Names /\ {NoName, Secret, Dev} \cap Names = {}

VARIABLES
    directory,      \* the keystore directory exists
    accounts,       \* accounts stored in it
    pointer,        \* content of .default; NoName if it is missing or empty
    session,        \* of each terminal: its way to a signer, or its auth command
    raced           \* two commands changed the keystore at once, one died over it, or a
                    \* call failed unnoticed, and none has put it right since

keystoreVars == <<directory, accounts, pointer, session, raced>>

Resolving  == {"pointer", "account"}
AuthPoints ==
    { "mkdir",        \* next: auth set makes the directory
      "store",        \* next: the account's file is written
      "find",         \* next: auth use looks for the account
      "look",         \* next: auth remove looks for the account
      "delete",       \* next: it deletes the account's file
      "repoint",      \* next: it looks whether the account was the default
      "successor",    \* next: it takes another one
      "list",         \* next: auth clear lists the accounts
      "deleteAll",    \* next: it deletes one of those listed
      "unpoint",      \* next: .default is deleted
      "truncate",     \* next: .default is opened and truncated
      "fill" }        \* next: the name is written to it
SessionPoints == {"none", "resolved", "refused", "changed"} \union Resolving \union AuthPoints

NoSession == [pc |-> "none", name |-> NoName, named |-> FALSE, listed |-> {}, signer |-> NoName]

InKeystore(p) == session[p].pc \in Resolving \union AuthPoints

KeystoreInit(stored) ==
    /\ accounts = stored /\ directory = (stored # {})
    /\ IF stored = {} THEN pointer = NoName ELSE pointer \in stored
    /\ session = [p \in Procs |-> NoSession] /\ raced = FALSE

In(p, pc)      == session[p].pc = pc
Goes(p, pc)    == session' = [session EXCEPT ![p].pc = pc]
Stops(p, pc)   == session' = [session EXCEPT ![p] = [NoSession EXCEPT !.pc = pc]]
Points(p, name) == session' = [session EXCEPT ![p].pc = "truncate", ![p].name = name]

Changes(p) == session[p].pc \in AuthPoints
Alone(p)   == \A q \in Procs \ {p} : ~Changes(q)
Meets(p)   == raced' = (raced \/ ~Alone(p))
Settles(p) == raced' = ~Alone(p)    \* what the command does from here on puts all right

(***************************************************************************)
(* The account of a command.                                               *)
(***************************************************************************)

\* resolveAuthSource: a secret given with the command wins, and one of the environment
\* if nothing hints at the keystore, as an account given with the command does.
Wanted(account) ==
    IF account = Secret
    THEN [NoSession EXCEPT !.pc = "resolved", !.signer = Secret]
    ELSE [NoSession EXCEPT !.pc = "pointer", !.named = (account # NoName),
                           !.name = IF account = NoName THEN Default ELSE account]

Chosen(p) == IF session[p].name = Default /\ pointer # NoName THEN pointer ELSE session[p].name

\* Without a directory the development account signs, unless an account was given.
ReadPointer(p) ==
    /\ In(p, "pointer")
    /\ session' = [session EXCEPT ![p] =
          IF directory THEN [@ EXCEPT !.pc = "account", !.name = Chosen(p)]
          ELSE IF @.named THEN [NoSession EXCEPT !.pc = "refused"]
          ELSE [NoSession EXCEPT !.pc = "resolved", !.signer = Dev]]
    /\ UNCHANGED <<directory, accounts, pointer, raced>>

\* The directory may seem absent to pathExists, or .default be unreadable: the command
\* goes on without it.
PointerUnread(p) ==
    /\ In(p, "pointer")
    /\ \/ directory /\ Goes(p, "account")
       \/ ~session[p].named
          /\ session' = [session EXCEPT ![p] = [NoSession EXCEPT !.pc = "resolved", !.signer = Dev]]
    /\ UNCHANGED <<directory, accounts, pointer, raced>>

\* The file may be gone by now.
OpenAccount(p) ==
    /\ In(p, "account")
    /\ session' = [session EXCEPT ![p] =
          IF @.name \in accounts THEN [NoSession EXCEPT !.pc = "resolved", !.signer = session[p].name]
          ELSE [NoSession EXCEPT !.pc = "refused"]]
    /\ UNCHANGED <<directory, accounts, pointer, raced>>

(***************************************************************************)
(* auth set, use, remove, clear.                                           *)
(***************************************************************************)
MakeDirectory(p) ==
    /\ In(p, "mkdir")
    /\ directory' = TRUE
    /\ Goes(p, "store") /\ Meets(p)
    /\ UNCHANGED <<accounts, pointer>>

\* writeKeystoreFile makes the directory again, and renames a complete file into place;
\* then it is the default.
StoreAccount(p) ==
    /\ In(p, "store")
    /\ directory' = TRUE /\ accounts' = accounts \union {session[p].name}
    /\ Goes(p, "truncate") /\ Settles(p)
    /\ UNCHANGED pointer

UseAccount(p) ==
    /\ In(p, "find")
    /\ IF session[p].name \in accounts
       THEN Goes(p, "truncate") /\ Settles(p)
       ELSE Stops(p, "refused") /\ Meets(p)
    /\ UNCHANGED <<directory, accounts, pointer>>

FindAccount(p) ==
    /\ In(p, "look")
    /\ IF session[p].name \in accounts THEN Goes(p, "delete") ELSE Stops(p, "refused")
    /\ Meets(p)
    /\ UNCHANGED <<directory, accounts, pointer>>

\* deleteKeystoreFile.  If the file is gone, there is nothing to do, or unlink throws.
DeleteAccount(p) ==
    /\ In(p, "delete")
    /\ accounts' = accounts \ {session[p].name}
    /\ \/ Goes(p, "repoint")
       \/ session[p].name \notin accounts /\ Stops(p, "refused")
    /\ Meets(p)
    /\ UNCHANGED <<directory, pointer>>

WasDefault(p) == pointer = session[p].name

ReadDefault(p) ==
    /\ In(p, "repoint")
    /\ IF WasDefault(p) THEN Goes(p, "successor") ELSE Stops(p, "changed")
    /\ Meets(p)
    /\ UNCHANGED <<directory, accounts, pointer>>

\* The first of the remaining accounts, in the order of their names; here any.
TakeSuccessor(p) ==
    /\ In(p, "successor")
    /\ \/ accounts = {} /\ Goes(p, "unpoint")
       \/ \E next \in accounts : Points(p, next)
    /\ Meets(p)
    /\ UNCHANGED <<directory, accounts, pointer>>

ListAccounts(p) ==
    /\ In(p, "list")
    /\ IF directory
       THEN session' = [session EXCEPT ![p].listed = accounts, ![p].pc = "deleteAll"] /\ Settles(p)
       ELSE Stops(p, "changed") /\ Meets(p)
    /\ UNCHANGED <<directory, accounts, pointer>>

DeleteListed(p) ==
    /\ In(p, "deleteAll")
    /\ \/ /\ session[p].listed = {}
          /\ Goes(p, "unpoint") /\ UNCHANGED accounts
       \/ \E name \in session[p].listed :
             /\ accounts' = accounts \ {name}
             /\ \/ session' = [session EXCEPT ![p].listed = @ \ {name}]
                \/ name \notin accounts /\ Stops(p, "refused")
    /\ Meets(p)
    /\ UNCHANGED <<directory, pointer>>

Unpoint(p) ==
    /\ In(p, "unpoint")
    /\ pointer' = NoName
    /\ Stops(p, "changed") /\ Meets(p)
    /\ UNCHANGED <<directory, accounts>>

\* writeDefaultAccountName empties .default before it writes the name.
TruncatePointer(p) ==
    /\ In(p, "truncate")
    /\ pointer' = NoName
    /\ Goes(p, "fill") /\ Meets(p)
    /\ UNCHANGED <<directory, accounts>>

FillPointer(p) ==
    /\ In(p, "fill")
    /\ pointer' = session[p].name
    /\ Stops(p, "changed") /\ Meets(p)
    /\ UNCHANGED <<directory, accounts>>

KeystoreStep(p) ==
    \/ ReadPointer(p) \/ OpenAccount(p)
    \/ MakeDirectory(p) \/ StoreAccount(p) \/ UseAccount(p)
    \/ FindAccount(p) \/ DeleteAccount(p) \/ ReadDefault(p) \/ TakeSuccessor(p)
    \/ ListAccounts(p) \/ DeleteListed(p) \/ Unpoint(p)
    \/ TruncatePointer(p) \/ FillPointer(p)

(***************************************************************************)
(* Calls that fail without the command's noticing.                         *)
(***************************************************************************)

\* A file pathExists does not see is not deleted, and the command goes on.
AccountOverlooked(p) ==
    /\ \/ In(p, "delete") /\ Goes(p, "repoint")
       \/ /\ In(p, "deleteAll")
          /\ \E name \in session[p].listed : session' = [session EXCEPT ![p].listed = @ \ {name}]
    /\ raced' = TRUE
    /\ UNCHANGED <<directory, accounts, pointer>>

\* A pointer that cannot be read is none: it stays on the account just deleted.
DefaultUnread(p) ==
    /\ In(p, "repoint") /\ Stops(p, "changed")
    /\ raced' = TRUE
    /\ UNCHANGED <<directory, accounts, pointer>>

\* A directory that cannot be read has no accounts.
AccountsUnlisted(p) ==
    /\ \/ In(p, "successor") /\ Goes(p, "unpoint")
       \/ In(p, "list") /\ directory /\ Goes(p, "unpoint")
    /\ raced' = TRUE
    /\ UNCHANGED <<directory, accounts, pointer>>

\* A pointer that cannot be deleted stays.
PointerStays(p) ==
    /\ In(p, "unpoint") /\ Stops(p, "changed")
    /\ raced' = TRUE
    /\ UNCHANGED <<directory, accounts, pointer>>

KeystoreFails(p) ==
    \/ PointerUnread(p) \/ AccountOverlooked(p) \/ DefaultUnread(p)
    \/ AccountsUnlisted(p) \/ PointerStays(p)

\* The terminal dies, its user does not give the password, or a call throws.
Interrupted(p) ==
    /\ Stops(p, "refused")
    /\ raced' = (raced \/ Changes(p))
    /\ UNCHANGED <<directory, accounts, pointer>>

(***************************************************************************)
(* What should be true.                                                    *)
(***************************************************************************)
KeystoreTypeOK ==
    /\ directory \in BOOLEAN /\ accounts \subseteq Names /\ pointer \in Names \union {NoName}
    /\ accounts # {} => directory
    /\ session \in [Procs -> [pc : SessionPoints, name : Names \union {NoName},
                              named : BOOLEAN, listed : SUBSET Names,
                              signer : Signers \union {NoName}]]
    /\ raced \in BOOLEAN

\* Whoever keeps accounts has a default among them, so that a command which names none
\* finds its account.  Only commands that change the keystore at once, a death, or a
\* failure no command notices can end that, and then no longer than until an auth set,
\* an auth use, or an auth clear has the keystore to itself.
DefaultIsKept ==
    ~raced /\ (\A p \in Procs : ~Changes(p)) =>
        IF accounts = {} THEN pointer = NoName ELSE pointer \in accounts
===============================================================================
