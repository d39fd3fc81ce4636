--------------------------- MODULE MCUploadCommand ---------------------------
(***************************************************************************)
(* What the run of UploadCommand tries.  In "files" one account gives each *)
(* of the commands around an upload: authorizations of two sizes, one of   *)
(* them forced, uploads with and without an entry in the User Store.  In   *)
(* "keys" the user changes the keystore while other commands sign: with the*)
(* default, with a named account, with a secret of their own.              *)
(***************************************************************************)
EXTENDS UploadCommand, TLC

Plain(name) == [name |-> name, account |-> NoName, cid |-> "a", grant |-> 1, force |-> FALSE,
                cache |-> FALSE, keep |-> TRUE]
Of(name, account) == [Plain(name) EXCEPT !.account = account]
Cached(account)   == [Of("upload", account) EXCEPT !.cid = "b", !.cache = TRUE, !.keep = FALSE]

Files(granted, mapped_, claimed) ==
    [ requests |-> { Plain("authorize"),
                     [Plain("authorize") EXCEPT !.grant = 2, !.force = TRUE],
                     Plain("refresh"),
                     Plain("upload"),
                     [Plain("upload") EXCEPT !.cid = "b", !.cache = TRUE],
                     [Plain("upload") EXCEPT !.cid = "b", !.keep = FALSE],
                     Plain("remove"), Plain("clear"), Plain("claim") },
      keystore |-> {"default"},
      granted  |-> granted, mapped |-> mapped_, claimed |-> claimed ]

Keys(names) ==
    [ requests |-> { Cached(NoName), Of("claim", "work"), Of("authorize", Secret),
                     Of("authSet", "work"), Of("authUse", "default"),
                     Of("authRemove", "work"), Of("authClear", "default") },
      keystore |-> names,
      granted  |-> {"default", "work"}, mapped |-> {"default"}, claimed |-> {"default"} ]

One == {"default"}
MCScenarios ==
    {Files(granted, {}, {}) : granted \in {{}, One}}
        \union {Files(granted, One, claimed) : granted \in {{}, One}, claimed \in {{}, One}}
        \union {Keys(names) : names \in SUBSET {"default", "work"}}
MCSymmetry  == Permutations(Procs)
===============================================================================
