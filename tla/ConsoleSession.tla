--------------------------- MODULE ConsoleSession ---------------------------
(***************************************************************************)
(* Who is signed in.  The tabs of one browser share the token in           *)
(* localStorage; a document has a copy of it in the API client, one in the *)
(* store that the layout watches, and the user that /me answered with.     *)
(* The Hub keeps its sessions in memory.                                   *)
(***************************************************************************)
EXTENDS Naturals, Sequences

CONSTANTS
    Tabs,       \* documents of one browser
    Accounts,
    MaxTokens,  \* bound: sessions the Hub makes
    MaxDoings   \* bound: what users do, sessions that end, requests that fail

ASSUME SessionAssumption == MaxTokens \in Nat \ {0} /\ MaxDoings \in Nat

Token == 1..MaxTokens
None == 0

VARIABLES
    stored,   \* localStorage
    owner,    \* Hub: whose session a token is, in the order they were made
    valid,    \* Hub: sessions that have not ended
    tab,      \* the documents
    asked,    \* requests that are not answered yet
    doings    \* bound used up

sessionVars == <<stored, owner, valid, tab, asked, doings>>

Doing == doings < MaxDoings /\ doings' = doings + 1

(* setToken: the client's copy and localStorage, not the store's. *)
SetToken(t, token, d) ==
    /\ stored' = token
    /\ tab' = [tab EXCEPT ![t] = [d EXCEPT !.client = token]]

(* A request carries the client's copy.  "mounted" is the effect that sent *)
(* it: its cleanup makes the answer of /me not count any more.             *)
AskAs(t, kind, token, user) ==
    [tab |-> t, kind |-> kind, token |-> token, user |-> user, mounted |-> TRUE]
Cleanup(rs, t) ==
    {[r EXCEPT !.mounted = (r.tab # t \/ r.kind # "me") /\ @] : r \in rs}

(* The layout's effect, when it is mounted and when the path or the        *)
(* store's token changes: without a token it leads to the sign-in page,    *)
(* with one it asks who that is.                                           *)
Layout(t, d, rs) ==
    /\ tab' = [tab EXCEPT ![t] = [d EXCEPT !.at = IF d.access = None THEN "sign-in" ELSE "in"]]
    /\ asked' = Cleanup(rs, t) \cup
                (IF d.access = None THEN {} ELSE {AskAs(t, "me", d.client, None)})

Document(token) == [client |-> token, access |-> token, user |-> None, at |-> "in", leaving |-> FALSE]

(* A load: the stored token is read once, nothing waits any more. *)
LoadTab(t) ==
    /\ \/ tab[t].leaving /\ UNCHANGED doings
       \/ ~tab[t].leaving /\ Doing
    /\ Layout(t, Document(stored), {r \in asked : r.tab # t})
    /\ UNCHANGED <<stored, owner, valid>>

(* The sign-in page opened by its address. *)
LoadSignIn(t) ==
    /\ Doing /\ ~tab[t].leaving
    /\ tab' = [tab EXCEPT ![t] = [Document(stored) EXCEPT !.at = "sign-in"]]
    /\ asked' = {r \in asked : r.tab # t}
    /\ UNCHANGED <<stored, owner, valid>>

(* A <Link> to another page. *)
ChangePath(t) ==
    /\ Doing /\ tab[t].at = "in" /\ ~tab[t].leaving
    /\ Layout(t, tab[t], asked)
    /\ UNCHANGED <<stored, owner, valid>>

(* What a page asks for. *)
PageAsks(t) ==
    /\ Doing /\ tab[t].at = "in" /\ tab[t].user # None
    /\ asked' = asked \cup {AskAs(t, "page", tab[t].client, None)}
    /\ UNCHANGED <<stored, owner, valid, tab>>

(* One sign-in at a time; the password is right or wrong. *)
SignIn(t) ==
    /\ Doing /\ tab[t].at = "sign-in" /\ ~tab[t].leaving
    /\ ~\E r \in asked : r.tab = t /\ r.kind = "login"
    /\ \E u \in Accounts : asked' = asked \cup {AskAs(t, "login", tab[t].client, u)}
    /\ UNCHANGED <<stored, owner, valid, tab>>

(* The session is dropped here and kept at the Hub. *)
Reset(d) == [d EXCEPT !.user = None, !.access = None]
SignOut(t) ==
    /\ Doing /\ tab[t].at = "in" /\ tab[t].user # None
    /\ SetToken(t, None, [Reset(tab[t]) EXCEPT !.at = "sign-in"])
    /\ asked' = Cleanup(asked, t)
    /\ UNCHANGED <<owner, valid>>

-----------------------------------------------------------------------------
(* Answers. *)

(* The new session is stored; then the document leaves for the page that   *)
(* was wanted.                                                             *)
SignedIn(r) ==
    /\ r.kind = "login" /\ Len(owner) < MaxTokens
    /\ LET token == Len(owner) + 1 IN
        /\ owner' = Append(owner, r.user) /\ valid' = valid \cup {token}
        /\ SetToken(r.tab, token, [tab[r.tab] EXCEPT !.access = token, !.user = r.user,
                                                     !.leaving = TRUE])
    /\ asked' = asked \ {r} /\ UNCHANGED doings

MeAnswers_AnyTime(r) ==   \* mutant: without the cleanup
    /\ r.kind = "me" /\ r.token \in valid
    /\ tab' = [tab EXCEPT ![r.tab].user = owner[r.token]]
    /\ asked' = asked \ {r}
    /\ UNCHANGED <<stored, owner, valid, doings>>
MeAnswers(r) ==
    /\ r.kind = "me" /\ r.token \in valid
    /\ tab' = IF r.mounted THEN [tab EXCEPT ![r.tab].user = owner[r.token]] ELSE tab
    /\ asked' = asked \ {r}
    /\ UNCHANGED <<stored, owner, valid, doings>>

(* /me failed, for whatever reason and mounted or not. *)
MeFails(r) ==
    /\ r.kind = "me" /\ (r.token \in valid => doings < MaxDoings)
    /\ doings' = IF r.token \in valid THEN doings + 1 ELSE doings
    /\ SetToken(r.tab, None,
                [Reset(tab[r.tab]) EXCEPT !.at = IF tab[r.tab].leaving THEN @ ELSE "sign-in"])
    /\ asked' = Cleanup(asked \ {r}, r.tab)
    /\ UNCHANGED <<owner, valid>>

PageAnswered(r) ==
    /\ r.kind = "page" /\ r.token \in valid
    /\ asked' = asked \ {r}
    /\ UNCHANGED <<stored, owner, valid, tab, doings>>

(* 401, to a page whose session has ended or for a wrong password: the     *)
(* client drops its token and the stored one, whichever was refused.  The  *)
(* store is not told.                                                      *)
Unauthorized(r) ==
    /\ \/ r.kind = "page" /\ r.token \notin valid /\ UNCHANGED doings
       \/ r.kind = "login" /\ Doing
    /\ SetToken(r.tab, None, tab[r.tab])
    /\ asked' = asked \ {r}
    /\ UNCHANGED <<owner, valid>>

(* The Hub: a session times out, or all end with its process. *)
SessionsEnd ==
    /\ Doing /\ valid # {}
    /\ valid' \in {valid \ {k} : k \in valid} \cup {{}}
    /\ UNCHANGED <<stored, owner, tab, asked>>

SessionInit ==
    /\ owner \in {<<>>} \cup {<<u>> : u \in Accounts}
    /\ valid = {k \in Token : k <= Len(owner)}
    /\ stored = Len(owner)
    /\ tab = [t \in Tabs |-> [Document(stored) EXCEPT !.at = "sign-in"]]
    /\ asked = {} /\ doings = 0

SessionStep ==
    \/ \E t \in Tabs : \/ LoadTab(t) \/ LoadSignIn(t) \/ ChangePath(t) \/ PageAsks(t)
                       \/ SignIn(t) \/ SignOut(t)
    \/ \E r \in asked : \/ SignedIn(r) \/ MeAnswers(r) \/ MeFails(r)
                        \/ PageAnswered(r) \/ Unauthorized(r)
    \/ SessionsEnd

=============================================================================
