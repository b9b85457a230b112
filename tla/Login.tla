------------------------------- MODULE Login --------------------------------
(***************************************************************************)
(* Auth (LazyCachedAuth of the library is the same code): prepare and      *)
(* resolve of the processes that share the file of refresh tokens, and     *)
(* save's change of that file, which takes no lock and renames nothing.    *)
(*                                                                         *)
(* A token is the number of the login that it was issued to, 0 is none.    *)
(* The file is the map of its tokens; a missing, empty or garbled file     *)
(* holds none, which is what load and save take it for; and so they do when *)
(* it cannot be read.                                                      *)
(***************************************************************************)
EXTENDS Naturals

CONSTANTS Procs, Accounts, AccountOf,
          MaxTokens   \* a bound: how many tokens Steam issues

ASSUME LoginAssumption ==
    /\ AccountOf \in [Procs -> Accounts]
    /\ MaxTokens \in Nat

VARIABLES file,     \* the token of each account on disk
          pc,
          eager,    \* does prepare itself log in?
          token,    \* the token that a process has been issued and not saved
          map,      \* the map that save has read, with the token in it
          mixed,    \* has another process written since the file was truncated?
          unread,   \* did the process fail to read the file, as far as it still
                    \* matters for what it does next?
          issued,   \* how many tokens have been issued
          last,     \* the token of each account that was saved last
          excused   \* may the account's token be gone, or be an old one?

loginVars == <<file, pc, eager, token, map, mixed, unread, issued, last, excused>>

Tokens == 0 .. MaxTokens
Nothing == [a \in Accounts |-> 0]

\* Where nothing is under way; a process that is up has its session.
Resting == {"down", "lazy", "up"}
PCs == Resting \cup {"discover", "access", "password", "read", "open", "write", "servers"}

LoginTypeOK ==
    /\ file \in [Accounts -> Tokens]
    /\ pc \in [Procs -> PCs]
    /\ eager \in [Procs -> BOOLEAN]
    /\ token \in [Procs -> Tokens]
    /\ map \in [Procs -> [Accounts -> Tokens]]
    /\ mixed \in [Procs -> BOOLEAN]
    /\ unread \in [Procs -> BOOLEAN]
    /\ issued \in Tokens
    /\ last \in [Accounts -> Tokens]
    /\ excused \in [Accounts -> BOOLEAN]

LoginInit ==
    /\ file = Nothing
    /\ pc = [p \in Procs |-> "down"]
    /\ eager = [p \in Procs |-> FALSE]
    /\ token = [p \in Procs |-> 0]
    /\ map = [p \in Procs |-> Nothing]
    /\ mixed = [p \in Procs |-> FALSE]
    /\ unread = [p \in Procs |-> FALSE]
    /\ issued = 0
    /\ last = Nothing
    /\ excused = [a \in Accounts |-> FALSE]

-----------------------------------------------------------------------------

Goto(p, l) == pc' = [pc EXCEPT ![p] = l]

historyVars == <<issued, last, excused>>
saveVars == <<token, map, mixed>>

\* What a process reads the file as: a read that fails is taken for an empty
\* map.
Readings == {file, Nothing}

\* load: the token of p's account in what it reads.
Load(p, f) == f[AccountOf[p]]

\* Mutant: prepare defers the login whether or not there is a token.
PrepareDeferring(p) ==
    /\ pc[p] = "down"
    /\ eager' = [eager EXCEPT ![p] = FALSE]
    /\ Goto(p, "lazy")
    /\ UNCHANGED <<file, saveVars, unread, historyVars>>

\* prepare: with a token on disk the login waits for the first use.
Prepare(p) ==
    \E f \in Readings :
        /\ pc[p] = "down"
        /\ eager' = [eager EXCEPT ![p] = Load(p, f) = 0]
        /\ Goto(p, IF Load(p, f) = 0 THEN "discover" ELSE "lazy")
        /\ UNCHANGED <<file, saveVars, unread, historyVars>>

\* resolve: the first use logs in.
Resolve(p) ==
    /\ pc[p] = "lazy"
    /\ Goto(p, "discover")
    /\ UNCHANGED <<file, eager, saveVars, unread, historyVars>>

\* A login that fails ends the process that prepares, and is forgotten by the
\* OnceCell of one that resolves.
Fail(p) ==
    /\ Goto(p, IF eager[p] THEN "down" ELSE "lazy")
    /\ token' = [token EXCEPT ![p] = 0]
    /\ map' = [map EXCEPT ![p] = Nothing]
    /\ mixed' = [mixed EXCEPT ![p] = FALSE]
    /\ unread' = [unread EXCEPT ![p] = FALSE]

\* establish_connection: with the server list in hand the token is read anew.
Discover(p) ==
    \E f \in Readings :
        /\ pc[p] = "discover"
        /\ unread' = [unread EXCEPT ![p] = f # file]
        /\ Goto(p, IF Load(p, f) = 0 THEN "password" ELSE "access")
        /\ UNCHANGED <<file, eager, saveVars, historyVars>>

Accepted(p) ==
    /\ pc[p] = "access"
    /\ Goto(p, "servers")
    /\ UNCHANGED <<file, eager, saveVars, unread, historyVars>>

\* Mutant: a rejected token is tried again.
RejectedRetrying(p) ==
    /\ pc[p] = "access"
    /\ Goto(p, "discover")
    /\ UNCHANGED <<file, eager, saveVars, unread, historyVars>>

Rejected(p) ==
    /\ pc[p] = "access"
    /\ Goto(p, "password")
    /\ UNCHANGED <<file, eager, saveVars, unread, historyVars>>

LoggedIn(p) ==
    /\ pc[p] = "password" /\ issued < MaxTokens
    /\ issued' = issued + 1
    /\ token' = [token EXCEPT ![p] = issued + 1]
    /\ Goto(p, "read")
    /\ unread' = [unread EXCEPT ![p] = FALSE]
    /\ UNCHANGED <<file, eager, map, mixed, last, excused>>

\* The connection has no token to save.
LoggedInWithout(p) ==
    /\ pc[p] = "password"
    /\ Goto(p, "servers")
    /\ unread' = [unread EXCEPT ![p] = FALSE]
    /\ UNCHANGED <<file, eager, saveVars, historyVars>>

\* No server list, no login, no directory for the file or no CDN servers.
LoginFails(p) ==
    /\ pc[p] \in {"discover", "password", "read", "servers"}
    /\ Fail(p)
    /\ UNCHANGED <<file, eager, historyVars>>

Up(p) ==
    /\ pc[p] = "servers"
    /\ Goto(p, "up")
    /\ UNCHANGED <<file, eager, saveVars, unread, historyVars>>

-----------------------------------------------------------------------------

Saves(p) == pc[p] \in {"open", "write"}

\* Another process is in the middle of a save.
Overlaps(p) == \E q \in Procs \ {p} : Saves(q)

AllExcused == [a \in Accounts |-> TRUE]

\* Mutant: the map is not read before it is written.
ReadMapAnew(p) ==
    /\ pc[p] = "read"
    /\ map' = [map EXCEPT ![p] = [Nothing EXCEPT ![AccountOf[p]] = token[p]]]
    /\ Goto(p, "open")
    /\ UNCHANGED <<file, eager, token, mixed, unread, historyVars>>

\* save reads the map of all accounts, or goes on with an empty one.
ReadMap(p) ==
    \E f \in Readings :
        /\ pc[p] = "read"
        /\ unread' = [unread EXCEPT ![p] = f # file]
        /\ map' = [map EXCEPT ![p] = [f EXCEPT ![AccountOf[p]] = token[p]]]
        /\ Goto(p, "open")
        /\ UNCHANGED <<file, eager, token, mixed, historyVars>>

\* fs::write opens the file, truncating it.
Truncate(p) ==
    /\ pc[p] = "open"
    /\ file' = Nothing
    /\ Goto(p, "write")
    /\ UNCHANGED <<eager, saveVars, unread, historyVars>>

\* fs::write writes through its handle, from the start of the file: over what
\* somebody else has written since, of which the end may remain.
Write(p) ==
    LET a == AccountOf[p]
    IN  /\ pc[p] = "write"
        /\ file' \in {map[p]} \cup IF mixed[p] THEN {Nothing} ELSE {}
        /\ mixed' = [q \in Procs |-> q # p /\ (pc[q] = "write" \/ mixed[q])]
        /\ last' = [last EXCEPT ![a] = token[p]]
        /\ excused' = IF mixed[p] \/ Overlaps(p) THEN AllExcused
                      ELSE [b \in Accounts |-> b # a /\ (excused[b] \/ unread[p])]
        /\ token' = [token EXCEPT ![p] = 0]
        /\ map' = [map EXCEPT ![p] = Nothing]
        /\ unread' = [unread EXCEPT ![p] = FALSE]
        /\ Goto(p, "servers")
        /\ UNCHANGED <<eager, issued>>

\* The save fails, and with it the login, which Steam has granted.
SaveFails(p) ==
    /\ Saves(p)
    /\ Fail(p)
    /\ excused' = IF pc[p] = "write" THEN AllExcused ELSE excused
    /\ UNCHANGED <<file, eager, issued, last>>

\* A process ends or dies, in the middle of a save perhaps.
Exit(p) ==
    /\ pc[p] # "down"
    /\ Goto(p, "down")
    /\ eager' = [eager EXCEPT ![p] = FALSE]
    /\ token' = [token EXCEPT ![p] = 0]
    /\ map' = [map EXCEPT ![p] = Nothing]
    /\ mixed' = [mixed EXCEPT ![p] = FALSE]
    /\ unread' = [unread EXCEPT ![p] = FALSE]
    /\ excused' = IF pc[p] = "write" THEN AllExcused ELSE excused
    /\ UNCHANGED <<file, issued, last>>

LoginStep(p) == \/ Discover(p) \/ Accepted(p) \/ Rejected(p)
           \/ LoggedIn(p) \/ LoggedInWithout(p) \/ LoginFails(p)
           \/ ReadMap(p) \/ Truncate(p) \/ Write(p) \/ SaveFails(p)
           \/ Up(p)

LoginNext == \E p \in Procs : Prepare(p) \/ Resolve(p) \/ LoginStep(p) \/ Exit(p)

\* Steam answers, or the connection times out; a process goes on with what it
\* has begun.
LoginFairness == \A p \in Procs : WF_loginVars(LoginStep(p))

LoginSpec == LoginInit /\ [][LoginNext]_loginVars /\ LoginFairness

-----------------------------------------------------------------------------

\* The file keeps the token last saved for every account (session.rs:115,
\* auth.rs:97), whoever saved others since: it is lost only by saves of two
\* processes that overlap, by a save that ends in the middle of its write, or
\* by the save of another account that could not read the file and went on
\* with an empty map (auth.rs:102-105).  The account's next save makes good
\* for it.
TokensAreKept ==
    \A a \in Accounts :
        ~ excused[a] /\ (\A p \in Procs : pc[p] # "write") => file[a] = last[a]

\* A login that prepare has deferred because there was a token (auth.rs:31)
\* finds a token when it is made at last, however many others have logged in
\* meanwhile, unless it cannot read the file, or the file is being written or
\* has lost the token in one of the ways above.  It may then be asked for a
\* password in the middle of the run.
DeferredFindsItsToken ==
    [][\A p \in Procs :
        pc[p] = "discover" /\ pc'[p] = "password" /\ ~ eager[p]
            => \/ unread'[p]
               \/ excused[AccountOf[p]]
               \/ \E q \in Procs : pc[q] = "write"]_loginVars

\* Every login comes to its end, whatever is rejected, lost or garbled.
LoginsEnd == \A p \in Procs : pc[p] \notin Resting ~> pc[p] \in Resting
=============================================================================
