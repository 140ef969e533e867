------------------------------- MODULE MCTools -------------------------------
(***************************************************************************)
(* Values for model-checking Tools: every kind of call, and small logs,    *)
(* metric windows, histories and symptoms for it to meet.                  *)
(***************************************************************************)
EXTENDS Tools, TLC

Line(level, text, failure, id) == [level |-> level, text |-> text, failure |-> failure, id |-> id]

\* The same error for two requests and once more without a request, a warning,
\* a memory kill, a platform line, an error of another kind.
Lines == {Line("ERROR", "a", FALSE, 1), Line("ERROR", "a", FALSE, 2),
          Line("ERROR", "b", FALSE, NoId), Line("INFO", "a", FALSE, 1),
          Line("none", "b", TRUE, NoId), Line("none", "a", FALSE, NoId)}

SmallLogs == UNION {[1..n -> Lines] : n \in 0..2}
                \cup {<<Line("ERROR", "a", FALSE, 1), Line("ERROR", "b", FALSE, 2),
                        Line("ERROR", "a", FALSE, 2), Line("ERROR", "a", FALSE, 1)>>,
                      <<Line("ERROR", "a", FALSE, 2), Line("INFO", "a", FALSE, 1),
                        Line("none", "b", TRUE, NoId), Line("ERROR", "a", FALSE, NoId)>>}

\* What one bucket holds: invocations, errors, average duration, or nothing.
Buckets == {<<>>, <<0, 0, 0>>, <<1, 0, 2>>, <<1, 0, 5>>, <<4, 1, 2>>, <<8, 2, 5>>, <<8, 8, 5>>}

PointsOf(window, k) == LET filled == {b \in DOMAIN window : window[b] # <<>>}
                       IN  [b \in filled |-> window[b][k]]

Windows ==
  {("Invocations" :> PointsOf(w, 1)) @@ ("Errors" :> PointsOf(w, 2))
     @@ ("Duration" :> PointsOf(w, 3)) @@ ("ApproximateAgeOfOldestMessage" :> PointsOf(w, 3)) :
   w \in [1..3 -> Buckets]}

Happened(id, resources, mentions) == [id |-> id, resources |-> resources, mentions |-> mentions]

\* A deployment of the application, one of Sentry's, one of both, a stranger's,
\* and events that name nothing but in their payload.
Trails == {<<<<Happened(1, <<"app">>, {"app"}), Happened(2, <<"own">>, {"own"})>>,
             <<Happened(3, <<"own", "app">>, {"own", "app"}), Happened(4, <<"other">>, {"other"})>>>>,
           <<<<Happened(1, <<>>, {"app"}), Happened(2, <<>>, {"own"})>>,
             <<Happened(3, <<"other">>, {"app", "own"}), Happened(4, <<"other">>, {"app"})>>>>}

Histories == [trail : Trails, commits : {<<>>, <<{"f"}>>, <<{"f"}, {}, {"g"}, {"f"}>>}]

Hits == [phrases : 0..1, words : 0..1]

SomeSymptoms == [1..4 -> Hits]

Calls ==
  [tool : {"search_logs"}, fits : {TRUE}, target : {"both"}, level : {"all", "ERROR", "WARNING"},
   term : {"any", "a"}]
  \cup [tool : {"get_metrics"}, fits : {TRUE}, target : {"api", "queue", "ledger"}]
  \cup [tool : {"get_recent_changes"}, fits : {TRUE}, source : {"deployments", "commits", "both"}]
  \cup [tool : {"search_runbooks"}, fits : {TRUE}, symptoms : SomeSymptoms \cup {NoSymptoms}]
  \cup [tool : {"search_runbooks", "page_operator"}, fits : {FALSE}]
=============================================================================
