--------------------------- MODULE GitHubClient ---------------------------
(***************************************************************************)
(* The calls of the issue queue to GitHub: AppClient.installationToken     *)
(* with its cache (internal/github/app.go) and Client.FindByMarker, which  *)
(* pages through the issues of a repository (internal/github/client.go).   *)
(*                                                                         *)
(* One action per critical section or HTTP exchange.  A call keeps the     *)
(* token it got for all its pages.  The lives of tokens are counted down   *)
(* in ticks; an exchange takes a tick at most (a timeout of ten seconds).  *)
(* Others open and remove issues of the repository between two pages.      *)
(***************************************************************************)
EXTENDS Naturals, FiniteSets

CONSTANTS
  Calls,      \* FindByMarker calls that may run at a time, of one marker
  MaxNumber,  \* bound: issue numbers of the repository
  MaxRemovals,\* bound: issues deleted or moved away
  PageSize,   \* per_page (100)
  Life,       \* ticks an installation token is good for (an hour)
  Margin      \* ticks before its end the cache gives it up (five minutes)

Issue == 1..MaxNumber

ASSUME GitHubClientAssumption ==
  /\ MaxNumber \in Nat /\ MaxRemovals \in Nat /\ PageSize \in Nat \ {0}
  /\ Margin \in Nat \ {0} /\ Life \in Nat /\ Life > Margin + 1

VARIABLES
  listed,     \* issues of the repository, numbered in order of creation
  marked,     \* those whose body has the marker
  removals,   \* issues removed so far
  cached,     \* life left of the cached token, 0: none or expired
  at,         \* Calls -> next step of the call
  token,      \* Calls -> life left of its token, 0 when expired
  waiting,    \* Calls -> has its exchange taken a tick already?
  page,       \* Calls -> page to fetch
  there,      \* history: Calls -> was there a marked issue as it began?
  lost        \* history: Calls -> has an issue been removed since?

clientVars == <<listed, marked, removals, cached, at, token, waiting, page,
                there, lost>>
repository == <<listed, marked, removals>>
search     == <<page, there, lost>>

Ends  == {"idle", "found", "notFound", "failed"}
Steps == {"cache", "fill", "first", "next"} \union Ends
Exchanges == {"fill", "first", "next"}

ClientTypeOK ==
  /\ marked \subseteq listed /\ listed \subseteq Issue
  /\ removals \in 0..MaxRemovals
  /\ cached \in 0..Life
  /\ at \in [Calls -> Steps]
  /\ token \in [Calls -> 0..Life]
  /\ waiting \in [Calls -> BOOLEAN]
  /\ page \in [Calls -> Nat]
  /\ there \in [Calls -> BOOLEAN]
  /\ lost \in [Calls -> BOOLEAN]

ClientInit ==
  /\ listed = {} /\ marked = {} /\ removals = 0
  /\ cached = 0
  /\ at = [c \in Calls |-> "idle"]
  /\ token = [c \in Calls |-> 0]
  /\ waiting = [c \in Calls |-> FALSE]
  /\ page = [c \in Calls |-> 1]
  /\ there = [c \in Calls |-> FALSE]
  /\ lost = [c \in Calls |-> FALSE]

\* The next step, which has its own ten seconds.
Proceed(c, step) == /\ at' = [at EXCEPT ![c] = step]
                    /\ waiting' = [waiting EXCEPT ![c] = FALSE]

\* The call returns; its locals no longer matter.
End(c, step) == /\ Proceed(c, step)
                /\ token' = [token EXCEPT ![c] = 0]
                /\ page' = [page EXCEPT ![c] = 1]

-----------------------------------------------------------------------------
(***************************************************************************)
(* installationToken.                                                      *)
(***************************************************************************)
FindByMarkerCalled(c) ==
  /\ at[c] \in Ends
  /\ Proceed(c, "cache")
  /\ there' = [there EXCEPT ![c] = marked # {}]
  /\ lost' = [lost EXCEPT ![c] = FALSE]
  /\ UNCHANGED <<repository, cached, token, page>>

\* Mutant of ReadCache: the margin is forgotten.
ReadCacheToTheEnd(c) ==
  /\ at[c] = "cache"
  /\ \/ cached > 0 /\ Proceed(c, "first") /\ token' = [token EXCEPT ![c] = cached]
     \/ cached = 0 /\ Proceed(c, "fill") /\ UNCHANGED token
  /\ UNCHANGED <<repository, cached, search>>

\* First critical section.
ReadCache(c) ==
  /\ at[c] = "cache"
  /\ \/ /\ cached > Margin
        /\ Proceed(c, "first")
        /\ token' = [token EXCEPT ![c] = cached]
     \/ cached <= Margin /\ Proceed(c, "fill") /\ UNCHANGED token
  /\ UNCHANGED <<repository, cached, search>>

\* GitHub makes a token; its answer is on the way.
TokenMade(c) ==
  /\ at[c] = "fill" /\ token[c] = 0
  /\ token' = [token EXCEPT ![c] = Life]
  /\ UNCHANGED <<repository, cached, at, waiting, search>>

\* Second critical section: the last answer stays, not the last token.
FillCache(c) ==
  /\ at[c] = "fill" /\ token[c] > 0
  /\ cached' = token[c]
  /\ Proceed(c, "first")
  /\ UNCHANGED <<repository, token, search>>

-----------------------------------------------------------------------------
(***************************************************************************)
(* Client.FindByMarker.                                                    *)
(***************************************************************************)

\* Place in the order of creation, the newest first.
Rank(n) == Cardinality({m \in listed : m >= n})

Page(p) == {n \in listed : Rank(n) \in (p - 1) * PageSize + 1 .. p * PageSize}

\* Mutant of LastPage: off by one.
LastPageOff(p) == Cardinality(Page(p)) <= PageSize

LastPage(p) == Cardinality(Page(p)) < PageSize

NextPage(c) == /\ Proceed(c, "next")
               /\ page' = [page EXCEPT ![c] = @ + 1]
               /\ UNCHANGED token

\* The newest issue with the marker is the answer.  GitHub refuses an expired
\* token.
FetchPage(c) ==
  LET hits == Page(page[c]) \intersect marked IN
  /\ at[c] \in {"first", "next"} /\ token[c] > 0
  /\ \/ hits # {} /\ End(c, "found")
     \/ hits = {} /\ LastPage(page[c]) /\ End(c, "notFound")
     \/ hits = {} /\ ~LastPage(page[c]) /\ NextPage(c)
  /\ UNCHANGED <<repository, cached, there, lost>>

\* An exchange fails, is refused or takes more than ten seconds.
ExchangeFails(c) ==
  /\ at[c] \in Exchanges
  /\ End(c, "failed")
  /\ UNCHANGED <<repository, cached, there, lost>>

-----------------------------------------------------------------------------
(***************************************************************************)
(* The repository and time.                                                *)
(***************************************************************************)

\* Somebody opens an issue, or a try of the same job whose call is over.
IssueOpened(n) ==
  /\ \A m \in listed : m < n
  /\ n = 1 \/ n - 1 \in listed
  /\ listed' = listed \union {n}
  /\ marked' \in {marked, marked \union {n}}
  /\ UNCHANGED <<removals, cached, at, token, waiting, search>>

\* An issue is deleted or transferred: what follows moves up on the pages.
IssueRemoved(n) ==
  /\ n \in listed /\ removals < MaxRemovals
  /\ removals' = removals + 1
  /\ listed' = listed \ {n} /\ marked' = marked \ {n}
  /\ lost' = [c \in Calls |-> at[c] \notin Ends \/ lost[c]]
  /\ UNCHANGED <<cached, at, token, waiting, page, there>>

Less(life) == IF life > 0 THEN life - 1 ELSE 0

ClientTick ==
  /\ \A c \in Calls : ~waiting[c]
  /\ waiting' = [c \in Calls |-> at[c] \in Exchanges]
  /\ cached' = Less(cached)
  /\ token' = [c \in Calls |-> Less(token[c])]
  /\ UNCHANGED <<repository, at, search>>

CallStep(c) == \/ ReadCache(c) \/ TokenMade(c) \/ FillCache(c)
               \/ FetchPage(c) \/ ExchangeFails(c)

ClientNext ==
  \/ \E c \in Calls : FindByMarkerCalled(c) \/ CallStep(c)
  \/ \E n \in Issue : IssueOpened(n) \/ IssueRemoved(n)
  \/ ClientTick

ClientSpec == ClientInit /\ [][ClientNext]_clientVars

-----------------------------------------------------------------------------
(***************************************************************************)
(* Properties.                                                             *)
(***************************************************************************)

\* FindByMarker only says that there is no issue with the marker when there
\* was none as it began: issues opened meanwhile push others to later pages,
\* never past the search.  Only a removed issue can hide another.
NotFoundIsTrue ==
  \A c \in Calls : at[c] = "notFound" /\ ~lost[c] => ~there[c]

\* The first exchange of a call never has an expired token, whoever filled
\* the cache and in whatever order the answers came.
TokenLasts == \A c \in Calls : at[c] = "first" => token[c] > 0
=============================================================================
