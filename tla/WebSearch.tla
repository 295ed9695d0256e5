------------------------------- MODULE WebSearch -------------------------------
(***************************************************************************)
(* SearchService.search: the configured SearXNG instance, asked by GET and *)
(* then by POST, and a fixed web engine when that gives nothing.  Redirects *)
(* are followed by hand, each target checked before it is fetched.         *)
(*                                                                         *)
(* A URL is "home", the one a stage starts at, or a redirect's target,     *)
(* named by what assert_safe_outbound_url says of it.                      *)
(***************************************************************************)
EXTENDS Naturals, FiniteSets

CONSTANTS
    Limit,      \* req.limit, in results
    SearxHops,  \* requests of one _get_with_validated_redirects: 4
    WebHops     \* redirects _follow_public_redirects follows: 5

ASSUME WebSearchAssumption ==
    Limit \in Nat \ {0} /\ SearxHops \in Nat \ {0} /\ WebHops \in Nat

Asking  == {"get", "post", "web"}
Targets == {"home", "safe", "unsafe"}

VARIABLES
    stage,     \* off, over or one of Asking
    url,       \* of the next request
    hops,      \* redirects followed in this stage
    query,     \* does the next request carry the query
    made,      \* requests made
    fetched,   \* what was asked of whom, in which stage
    results,   \* how many the answer has
    homeSafe   \* is the configured instance an allowed target

searchVars == <<stage, url, hops, query, made, fetched, results, homeSafe>>

SearchInit ==
    /\ stage = "off" /\ url = "home" /\ hops = 0 /\ query = FALSE
    /\ made = 0 /\ fetched = {} /\ results = 0 /\ homeSafe \in BOOLEAN

\* A stage begins at its own URL, with the query.
Enter(s) == stage' = s /\ url' = "home" /\ hops' = 0 /\ query' = TRUE /\ UNCHANGED results
SearchEnds(n) == stage' = "over" /\ results' = n /\ UNCHANGED <<url, hops, query>>

\* SEARXNG_URL is set, or it is not.
SearchBegins ==
    /\ stage = "off" /\ \E s \in {"get", "web"} : Enter(s)
    /\ UNCHANGED <<made, fetched, homeSafe>>

\* Variant: only the first URL of a stage is checked.
FirstChecked == url = "home" => stage = "web" \/ homeSafe

\* The fixed URL of the web engine is not checked, all others are.
Safe == IF url = "home" THEN stage = "web" \/ homeSafe ELSE url = "safe"
\* The check or the request raises: the fallback's turn, or no results.
Raises ==
    /\ stage \in Asking
    /\ IF stage = "web" THEN SearchEnds(0) ELSE Enter("web")
    /\ UNCHANGED <<made, fetched, homeSafe>>

Redirected(u) ==
    url' = u /\ hops' = hops + 1 /\ query' = FALSE /\ UNCHANGED <<stage, results>>
HopsLeft == hops < IF stage = "web" THEN WebHops ELSE SearxHops - 1

\* A request and its response: a redirect, results, or neither.  The GET of the
\* instance is then repeated as a POST, unless it was its content that failed.
Responds ==
    /\ stage \in Asking /\ Safe
    /\ made' = made + 1
    /\ fetched' = fetched \cup {[stage |-> stage, url |-> url, query |-> query]}
    /\ UNCHANGED homeSafe
    /\ \/ HopsLeft /\ \E u \in Targets : Redirected(u)
       \/ \E n \in 1 .. Limit : SearchEnds(n)
       \/ stage = "web" /\ SearchEnds(0)
       \/ stage # "web" /\ Enter("web")
       \/ stage = "get" /\ Enter("post")

SearchStep == Raises \/ Responds

SearchTypeOK ==
    /\ stage \in Asking \cup {"off", "over"} /\ url \in Targets
    /\ hops \in 0 .. WebHops + SearxHops /\ query \in BOOLEAN /\ made \in Nat
    /\ fetched \subseteq [stage : Asking, url : Targets, query : BOOLEAN]
    /\ results \in 0 .. Limit /\ homeSafe \in BOOLEAN

\* Nothing is fetched that the check refused, at any hop of any stage
\* (_get_with_validated_redirects, _follow_public_redirects).
OnlyChecked == \A f \in fetched : f.url # "unsafe" /\ (f.url = "home" /\ f.stage # "web" => homeSafe)

\* The user's words are sent to the configured instance and to the web engine,
\* never to where these redirect.
QueryStaysHome == \A f \in fetched : f.query => f.url = "home"

\* Redirect loops end: two chases at the instance and one at the web engine.
FetchesBounded == made <= 2 * SearxHops + WebHops + 1
\* A search fetches what was checked, tells nobody else what it is for, and
\* comes to an end.
FetchesSafe == OnlyChecked /\ QueryStaysHome /\ FetchesBounded
=============================================================================
