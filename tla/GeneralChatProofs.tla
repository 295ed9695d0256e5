-------------------------- MODULE GeneralChatProofs --------------------------
(***************************************************************************)
(* Safety of the general chat and its search, for any limits and any       *)
(* behaviour of the provider and of the search engines.                    *)
(***************************************************************************)
EXTENDS GeneralChat, TLAPS

Event == ({"status", "usage", "chunk"} \cup Terminals) \X Nat

\* How many requests a search has made by its stage, and what its next one is.
HopsInv ==
    /\ query => url = "home"
    /\ stage = "off" => made = 0
    /\ stage = "get" => made <= hops /\ hops <= SearxHops - 1
    /\ stage = "post" => made <= SearxHops + hops /\ hops <= SearxHops - 1
    /\ stage = "web" => made <= 2 * SearxHops + hops /\ hops <= WebHops
    /\ made <= 2 * SearxHops + WebHops + 1
    /\ stage # "over" => results = 0
SearchInv == SearchTypeOK /\ HopsInv /\ OnlyChecked /\ QueryStaysHome

\* Where the loop stands and what it may still do.
LoopTypes ==
    /\ request \in {"chat", "models"} /\ attempt \in 0 .. MaxRetries
    /\ pc \in {"checking", "searching", "asking", "streaming", "waiting"} \cup Ended
    /\ lines \in 0 .. MaxLines /\ started \in BOOLEAN /\ messages \in 0 .. 2
LoopInv ==
    /\ LoopTypes
    /\ pc = "waiting" => attempt < MaxRetries
    /\ pc \in {"checking", "searching", "asking", "waiting"} => ~started
    /\ pc = "checking" => stage = "off" /\ messages <= 1
    /\ pc = "searching" => messages = 1

\* What the client was told: text only of the current attempt, once it started.
TalkInv ==
    /\ said \in Seq(Event)
    /\ EndsOnceLast
    /\ \A i \in DOMAIN said : said[i][1] = "chunk" => started /\ said[i][2] = attempt
    /\ OneAttemptsText

IInv == SearchInv /\ LoopInv /\ TalkInv

-----------------------------------------------------------------------------
(* The search.                                                             *)
LEMMA SearchKeeps ==
    ASSUME SearchInv, SearchBegins \/ SearchStep \/ UNCHANGED searchVars
    PROVE  SearchInv'
<1>0. /\ Limit \in Nat \ {0} /\ SearxHops \in Nat \ {0} /\ WebHops \in Nat
      /\ SearchTypeOK /\ HopsInv /\ OnlyChecked /\ QueryStaysHome
    BY WebSearchAssumption DEF SearchInv
<1>1. CASE SearchBegins
    BY <1>0, <1>1
       DEF SearchBegins, Enter, SearchInv, SearchTypeOK, HopsInv, OnlyChecked, QueryStaysHome, Asking,
           Targets
<1>2. CASE Raises
  <2>1. OnlyChecked' /\ QueryStaysHome'
      BY <1>0, <1>2 DEF Raises, OnlyChecked, QueryStaysHome
  <2>2. CASE SearchEnds(0)
      BY <1>0, <1>2, <2>1, <2>2
         DEF Raises, SearchEnds, SearchInv, SearchTypeOK, HopsInv, Asking
  <2>3. CASE stage # "web" /\ Enter("web")
      BY <1>0, <1>2, <2>1, <2>3
         DEF Raises, Enter, SearchInv, SearchTypeOK, HopsInv, Asking, Targets
  <2> QED
      BY <1>2, <2>2, <2>3 DEF Raises
<1>3. CASE Responds
  <2>1. OnlyChecked' /\ QueryStaysHome'
      BY <1>0, <1>3 DEF Responds, Safe, OnlyChecked, QueryStaysHome, HopsInv, Targets, SearchTypeOK
  <2>2. /\ fetched' \subseteq [stage : Asking, url : Targets, query : BOOLEAN]
        /\ made' = made + 1 /\ made' \in Nat /\ homeSafe' \in BOOLEAN
      BY <1>0, <1>3 DEF Responds, SearchTypeOK
  <2>3. CASE HopsLeft /\ \E u \in Targets : Redirected(u)
    <3>1. hops' = hops + 1 /\ hops' \in 0 .. WebHops + SearxHops
        BY <1>0, <1>3, <2>3 DEF HopsLeft, Redirected, SearchTypeOK, HopsInv, Asking
    <3>2. stage' = stage /\ results' = results /\ url' \in Targets /\ query' = FALSE
        BY <2>3 DEF Redirected
    <3>3. SearchTypeOK'
        BY <1>0, <2>2, <3>1, <3>2 DEF SearchTypeOK
    <3>4. HopsInv'
        BY <1>0, <1>3, <2>2, <2>3, <3>1, <3>2
           DEF Responds, HopsLeft, SearchTypeOK, HopsInv, Asking
    <3> QED
        BY <2>1, <3>3, <3>4 DEF SearchInv
  <2>4. ASSUME NEW n \in 0 .. Limit, SearchEnds(n) PROVE SearchInv'
      BY <1>0, <1>3, <2>1, <2>2, <2>4
         DEF Responds, SearchEnds, SearchInv, SearchTypeOK, HopsInv, Asking
  <2>5. CASE stage # "web" /\ Enter("web")
      BY <1>0, <1>3, <2>1, <2>2, <2>5
         DEF Responds, Enter, SearchInv, SearchTypeOK, HopsInv, Asking, Targets
  <2>6. CASE stage = "get" /\ Enter("post")
      BY <1>0, <1>3, <2>1, <2>2, <2>6
         DEF Responds, Enter, SearchInv, SearchTypeOK, HopsInv, Asking, Targets
  <2> QED
      BY <1>0, <1>3, <2>3, <2>4, <2>5, <2>6 DEF Responds
<1>4. CASE UNCHANGED searchVars
    BY <1>0, <1>4
       DEF searchVars, SearchInv, SearchTypeOK, HopsInv, OnlyChecked, QueryStaysHome
<1> QED
    BY <1>1, <1>2, <1>3, <1>4 DEF SearchStep

-----------------------------------------------------------------------------
(* What a step does to the events.                                         *)
\* The last event is new, and the others are as they were.
LEMMA SaysOne ==
    ASSUME said \in Seq(Event), attempt \in Nat, NEW e,
           e \in {"status", "usage", "chunk"} \cup Terminals, Say(e)
    PROVE  /\ said' \in Seq(Event) /\ Len(said') = Len(said) + 1
           /\ \A i \in 1 .. Len(said) : said'[i] = said[i]
           /\ said'[Len(said')] = <<e, attempt>>
    BY DEF Say, Event

LEMMA SaysLine ==
    ASSUME said \in Seq(Event), attempt \in Nat, NEW text \in BOOLEAN, NEW usage \in BOOLEAN,
           Line(text, usage)
    PROVE  /\ said' \in Seq(Event) /\ Len(said') >= Len(said)
           /\ \A i \in 1 .. Len(said) : said'[i] = said[i]
           /\ \A i \in Len(said) + 1 .. Len(said') :
                 /\ said'[i] = <<"usage", attempt>> \/ said'[i] = <<"chunk", attempt>>
                 /\ ~text => said'[i] = <<"usage", attempt>>
<1>1. <<"usage", attempt>> \in Event /\ <<"chunk", attempt>> \in Event
    BY DEF Event
<1>2. CASE text /\ usage
  <2> DEFINE mid == Append(said, <<"usage", attempt>>)
  <2>1. /\ mid \in Seq(Event) /\ Len(mid) = Len(said) + 1 /\ mid[Len(said) + 1] = <<"usage", attempt>>
        /\ \A i \in 1 .. Len(said) : mid[i] = said[i]
      BY <1>1
  <2>2. said' = (said \o <<<<"usage", attempt>>>>) \o <<<<"chunk", attempt>>>>
      BY <1>2 DEF Line
  <2>3. said \o <<<<"usage", attempt>>>> = mid
      BY <1>1
  <2>4. said' = mid \o <<<<"chunk", attempt>>>>
      BY <2>2, <2>3
  <2> HIDE DEF mid
  <2>5. /\ said' \in Seq(Event) /\ Len(said') = Len(mid) + 1
        /\ said'[Len(mid) + 1] = <<"chunk", attempt>>
        /\ \A i \in 1 .. Len(mid) : said'[i] = mid[i]
      BY <1>1, <2>1, <2>4
  <2>6. Len(said) \in Nat /\ Len(said') = Len(said) + 2
      BY <2>1, <2>5
  <2>7. \A i \in 1 .. Len(said) : said'[i] = said[i]
      BY <2>1, <2>5, <2>6
  <2>8. said'[Len(said) + 1] = <<"usage", attempt>> /\ said'[Len(said) + 2] = <<"chunk", attempt>>
    <3>1. Len(said) + 1 \in 1 .. Len(mid) /\ Len(mid) + 1 = Len(said) + 2
        BY <2>1, <2>6
    <3>2. said'[Len(said) + 1] = mid[Len(said) + 1]
        BY <2>5, <3>1
    <3>3. said'[Len(said) + 2] = <<"chunk", attempt>>
        BY <2>5, <3>1
    <3> QED
        BY <2>1, <3>2, <3>3
  <2>9. \A i \in Len(said) + 1 .. Len(said') : i = Len(said) + 1 \/ i = Len(said) + 2
      BY <2>6
  <2> QED
      BY <1>2, <2>5, <2>6, <2>7, <2>8, <2>9
<1>3. CASE text /\ ~usage
    BY <1>1, <1>3 DEF Line
<1>4. CASE ~text /\ usage
    BY <1>1, <1>4 DEF Line
<1>5. CASE ~text /\ ~usage
    BY <1>1, <1>5 DEF Line
<1> QED
    BY <1>2, <1>3, <1>4, <1>5

\* An event that is neither text nor an end, or an end that ends it all, is
\* added to what was said without harm.
LEMMA TalkGoesOn ==
    ASSUME TalkInv, attempt \in Nat, attempt' = attempt, started' = started, pc # "over",
           NEW e \in {"status"} \cup Terminals, Say(e),
           e \in Terminals <=> pc' = "over",
           e = "status" => ~started
    PROVE  TalkInv'
<1>1. /\ said' \in Seq(Event) /\ Len(said') = Len(said) + 1
      /\ \A i \in 1 .. Len(said) : said'[i] = said[i]
      /\ said'[Len(said')] = <<e, attempt>>
    BY SaysOne DEF TalkInv
<1>2. said \in Seq(Event)
    BY DEF TalkInv
<1>3. e # "chunk"
    BY DEF Terminals
<1>4. EndsOnceLast'
    BY <1>1, <1>2 DEF TalkInv, EndsOnceLast
<1>5. (\A i \in DOMAIN said : said[i][1] = "chunk" => started /\ said[i][2] = attempt)'
    BY <1>1, <1>2, <1>3 DEF TalkInv
<1>6. OneAttemptsText'
    BY <1>1, <1>2, <1>3 DEF TalkInv, OneAttemptsText
<1> QED
    BY <1>1, <1>4, <1>5, <1>6 DEF TalkInv

\* Steps that say nothing.
LEMMA TalkStays ==
    ASSUME TalkInv, UNCHANGED <<said, attempt, started>>, pc' = "over" <=> pc = "over"
    PROVE  TalkInv'
    BY DEF TalkInv, EndsOnceLast, OneAttemptsText

-----------------------------------------------------------------------------
(* The inductive invariant.                                                *)
LEMMA InitHolds == Init => IInv
<1> SUFFICES ASSUME Init PROVE IInv
    OBVIOUS
<1>0. /\ Limit \in Nat \ {0} /\ SearxHops \in Nat \ {0} /\ WebHops \in Nat
      /\ MaxRetries \in Nat /\ MaxLines \in Nat
    BY WebSearchAssumption, GeneralChatAssumption
<1>1. SearchInv
  <2>1. query \in BOOLEAN /\ query = FALSE
      BY DEF Init, SearchInit
  <2> QED
      BY <1>0, <2>1
         DEF Init, SearchInit, SearchInv, SearchTypeOK, HopsInv, OnlyChecked, QueryStaysHome, Targets
<1>2. LoopInv
  <2>1. started \in BOOLEAN /\ ~started
      BY DEF Init
  <2> QED
      BY <1>0, <2>1 DEF Init, SearchInit, LoopInv, LoopTypes
<1>3. TalkInv
    BY DEF Init, TalkInv, EndsOnceLast, OneAttemptsText
<1> QED
    BY <1>1, <1>2, <1>3 DEF IInv

LEMMA NextLoop == ASSUME IInv, Next PROVE LoopInv'
<1>0. /\ MaxRetries \in Nat /\ MaxLines \in Nat /\ LoopInv /\ LoopTypes
      /\ stage # "over" => results = 0
    BY GeneralChatAssumption DEF IInv, LoopInv, SearchInv, HopsInv
<1>1. CASE Refused \/ FailsForGood \/ ModelsAnswered \/ StreamEnds \/ Leave
    BY <1>0, <1>1 DEF Refused, FailsForGood, ModelsAnswered, StreamEnds, Leave, Finish, LoopInv,
        LoopTypes, searchVars, Ended
<1>2. CASE ModelsAsked \/ NoSearch
    BY <1>0, <1>2 DEF ModelsAsked, NoSearch, Tell, LoopInv, LoopTypes, searchVars
<1>3. CASE SearchAsked
    BY <1>0, <1>3 DEF SearchAsked, Tell, LoopInv, LoopTypes
<1>4. CASE Searching
    BY <1>0, <1>4 DEF Searching, chatVars, LoopInv, LoopTypes
<1>5. CASE SearchRaises \/ SearchDone
    BY <1>0, <1>5 DEF SearchRaises, SearchDone, Tell, LoopInv, LoopTypes, searchVars
<1>6. CASE Fails
    BY <1>0, <1>6 DEF Fails, MayRetry, Tell, Finish, LoopInv, LoopTypes, searchVars, Ended
<1>7. CASE BackoffDone
  <2>1. started' \in BOOLEAN /\ ~started'
      BY <1>7 DEF BackoffDone
  <2> QED
      BY <1>0, <1>7, <2>1 DEF BackoffDone, LoopInv, LoopTypes, searchVars
<1>8. CASE Opened
    BY <1>0, <1>8 DEF Opened, LoopInv, LoopTypes, searchVars
<1>9. ASSUME NEW text \in BOOLEAN, NEW usage \in BOOLEAN, Line(text, usage) PROVE LoopInv'
  <2>1. started' \in BOOLEAN
      BY <1>9 DEF Line
  <2>2. lines' \in 0 .. MaxLines /\ UNCHANGED <<request, pc, attempt, messages, results>>
      BY <1>0, <1>9 DEF Line, LoopTypes, searchVars
  <2> QED
      BY <1>0, <1>9, <2>1, <2>2 DEF Line, LoopInv, LoopTypes
<1> QED
    BY <1>1, <1>2, <1>3, <1>4, <1>5, <1>6, <1>7, <1>8, <1>9 DEF Next, Work

LEMMA NextTalk == ASSUME IInv, Next PROVE TalkInv'
<1>0. LoopInv /\ LoopTypes /\ TalkInv /\ attempt \in Nat
    BY GeneralChatAssumption DEF IInv, LoopInv, LoopTypes
<1>1. CASE Refused \/ FailsForGood
    BY <1>0, <1>1, TalkGoesOn DEF Refused, FailsForGood, Finish, Terminals
<1>2. CASE ModelsAnswered
    BY <1>0, <1>2, TalkGoesOn DEF ModelsAnswered, Finish, Terminals
<1>3. CASE StreamEnds
    BY <1>0, <1>3, TalkGoesOn DEF StreamEnds, Finish, Terminals
<1>4. CASE ModelsAsked \/ Opened \/ Leave
    BY <1>0, <1>4, TalkStays DEF ModelsAsked, Opened, Leave, Ended
<1>5. CASE Searching
    BY <1>0, <1>5, TalkStays DEF Searching, chatVars
<1>6. CASE SearchAsked
    BY <1>0, <1>6, TalkGoesOn DEF SearchAsked, Tell, LoopInv, Terminals
<1>7. CASE SearchDone
    BY <1>0, <1>7, TalkGoesOn DEF SearchDone, Tell, LoopInv, Terminals
<1>8. CASE NoSearch
    BY <1>0, <1>8, TalkGoesOn DEF NoSearch, Tell, LoopInv, Terminals
<1>9. CASE Fails
  <2>1. CASE MayRetry /\ Tell("status", "waiting")
      BY <1>0, <1>9, <2>1, TalkGoesOn DEF Fails, MayRetry, Tell, Terminals
  <2>2. CASE pc' = "waiting" /\ UNCHANGED said
      BY <1>0, <1>9, <2>2, TalkStays DEF Fails
  <2>3. CASE Finish("error")
      BY <1>0, <1>9, <2>3, TalkGoesOn DEF Fails, Finish, Terminals
  <2> QED
      BY <1>9, <2>1, <2>2, <2>3 DEF Fails
<1>10. CASE BackoffDone
  <2>1. ~started /\ UNCHANGED said /\ pc # "over" /\ pc' # "over"
      BY <1>0, <1>10 DEF BackoffDone, LoopInv
  <2>2. \A i \in DOMAIN said : said[i][1] # "chunk"
      BY <1>0, <2>1 DEF TalkInv
  <2> QED
      BY <1>0, <2>1, <2>2 DEF TalkInv, EndsOnceLast, OneAttemptsText
<1>11. ASSUME NEW text \in BOOLEAN, NEW usage \in BOOLEAN, Line(text, usage) PROVE TalkInv'
  <2>1. said \in Seq(Event)
      BY <1>0 DEF TalkInv
  <2>2. /\ said' \in Seq(Event) /\ Len(said') >= Len(said)
        /\ \A i \in 1 .. Len(said) : said'[i] = said[i]
        /\ \A i \in Len(said) + 1 .. Len(said') :
              /\ said'[i] = <<"usage", attempt>> \/ said'[i] = <<"chunk", attempt>>
              /\ ~text => said'[i] = <<"usage", attempt>>
      BY <1>0, <1>11, <2>1, SaysLine
  <2>3. attempt' = attempt /\ pc # "over" /\ pc' # "over" /\ (started' <=> started \/ text)
      BY <1>11 DEF Line
  <2>4. \A i \in DOMAIN said' :
           \/ i \in DOMAIN said /\ said'[i] = said[i]
           \/ /\ i \notin DOMAIN said /\ i > Len(said)
              /\ said'[i][2] = attempt /\ said'[i][1] \in {"usage", "chunk"}
              /\ said'[i][1] = "chunk" => text
      BY <2>1, <2>2
  <2>5. EndsOnceLast'
      BY <1>0, <2>3, <2>4 DEF TalkInv, EndsOnceLast, Terminals
  <2>6. (\A i \in DOMAIN said : said[i][1] = "chunk" => started /\ said[i][2] = attempt)'
      BY <1>0, <2>3, <2>4 DEF TalkInv
  <2>7. OneAttemptsText'
    <3> SUFFICES ASSUME NEW i \in DOMAIN said', said'[i][1] = "chunk", NEW j \in i + 1 .. Len(said')
                 PROVE  said'[j][2] = said'[i][2] /\ said'[j][1] # "status"
        BY DEF OneAttemptsText
    <3>1. i \in 1 .. Len(said') /\ j \in DOMAIN said' /\ j > i
        BY <2>2
    <3>2. CASE j \in DOMAIN said
        BY <1>0, <2>1, <2>2, <2>4, <3>1, <3>2 DEF TalkInv, OneAttemptsText
    <3>3. CASE j \notin DOMAIN said
        BY <2>3, <2>4, <2>6, <3>1, <3>3
    <3> QED
        BY <3>2, <3>3
  <2> QED
      BY <2>2, <2>5, <2>6, <2>7 DEF TalkInv
<1>12. CASE SearchRaises
    BY <1>0, <1>12, TalkGoesOn DEF SearchRaises, Say, LoopInv, Terminals
<1> QED
    BY <1>1, <1>2, <1>3, <1>4, <1>5, <1>6, <1>7, <1>8, <1>9, <1>10, <1>11, <1>12 DEF Next, Work

\* A search that raises has made the requests it has made.
LEMMA RaisedSearch == ASSUME IInv, SearchRaises PROVE SearchInv'
<1>1. /\ Limit \in Nat /\ SearchTypeOK /\ HopsInv /\ OnlyChecked /\ QueryStaysHome
    BY WebSearchAssumption DEF IInv, SearchInv
<1>2. OnlyChecked' /\ QueryStaysHome'
    BY <1>1 DEF SearchRaises, OnlyChecked, QueryStaysHome
<1> QED
    BY <1>1, <1>2 DEF SearchRaises, SearchEnds, SearchInv, SearchTypeOK, HopsInv, Asking

LEMMA NextSearch == ASSUME IInv, Next PROVE SearchInv'
    BY SearchKeeps, RaisedSearch
       DEF IInv, Next, Work, Refused, ModelsAsked, SearchAsked, Searching, SearchDone, NoSearch, Fails,
           FailsForGood, BackoffDone, ModelsAnswered, Opened, StreamEnds, Line, Leave

-----------------------------------------------------------------------------
(* Theorems.                                                               *)

\* The inductive invariant: where a search stands, where the loop stands, and
\* what has been said (SearchService.search, run_general_chat_stream).
THEOREM ChatInvariant == Spec => []IInv
<1>1. IInv /\ UNCHANGED vars => IInv'
  <2> SUFFICES ASSUME IInv, UNCHANGED vars PROVE IInv'
      OBVIOUS
  <2>1. SearchInv'
      BY SearchKeeps DEF IInv, vars
  <2>2. LoopInv'
      BY DEF IInv, vars, searchVars, chatVars, LoopInv, LoopTypes
  <2>3. TalkInv'
      BY TalkStays DEF IInv, vars, chatVars
  <2> QED
      BY <2>1, <2>2, <2>3 DEF IInv
<1>2. IInv /\ [Next]_vars => IInv'
    BY <1>1, NextSearch, NextLoop, NextTalk DEF IInv
<1> QED
    BY InitHolds, <1>2, PTL DEF Spec

\* Every variable keeps its type, whatever the limits.
THEOREM ChatTypes == Spec => []TypeOK
<1>1. IInv => TypeOK
  <2> SUFFICES ASSUME IInv PROVE TypeOK
      OBVIOUS
  <2>1. attempt \in 0 .. MaxRetries + 1
      BY GeneralChatAssumption DEF IInv, LoopInv, LoopTypes
  <2> QED
      BY <2>1 DEF IInv, SearchInv, LoopInv, LoopTypes, TalkInv, TypeOK, Event
<1> QED
    BY ChatInvariant, <1>1, PTL

\* A search fetches only what was checked, sends its words to the instance and
\* the web engine only, and makes a bounded number of requests, for any limits
\* on redirects (_get_with_validated_redirects, _follow_public_redirects).
THEOREM ChatFetchesSafe == Spec => []FetchesSafe
<1>1. IInv => FetchesSafe
    BY DEF IInv, SearchInv, HopsInv, FetchesSafe, FetchesBounded
<1> QED
    BY ChatInvariant, <1>1, PTL

\* A stream is ended by one event, its last one, and never for want of attempts
\* without a word (run_general_chat_stream).
THEOREM ChatEndsWell == Spec => []EndsWell
<1>1. IInv => EndsWell
    BY DEF IInv, TalkInv, LoopInv, LoopTypes, EndsWell, NeverSpent, Ended
<1> QED
    BY ChatInvariant, <1>1, PTL

\* All the text a client gets is of one attempt (run_general_chat_stream).
THEOREM ChatOneAttemptsText == Spec => []OneAttemptsText
<1>1. IInv => OneAttemptsText
    BY DEF IInv, TalkInv
<1> QED
    BY ChatInvariant, <1>1, PTL
=============================================================================
