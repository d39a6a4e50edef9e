--------------------------- MODULE MCInvestigation ---------------------------
(***************************************************************************)
(* A small instance of Investigation: two processes that upload, fail and  *)
(* fall back, and a conversation over a websocket; and the scores of the   *)
(* analyzer over sets of findings.                                         *)
(***************************************************************************)
EXTENDS Investigation

Plain ==
    [kind |-> "http", host |-> "h", path |-> "/", method |-> "GET", size |-> 0, type |-> None,
     process |-> "app", executable |-> None, pid |-> None, client |-> "c", id |-> None,
     scheme |-> "https", rawIp |-> FALSE, random |-> FALSE, c2 |-> FALSE, hosting |-> FALSE,
     shell |-> FALSE, temporary |-> FALSE, browser |-> FALSE, agent |-> {"mozilla"},
     http11 |-> TRUE, hostHeaders |-> 1, lengthHeaders |-> 0, oddHeaders |-> FALSE,
     carries |-> {}, sensitive |-> FALSE, file |-> FALSE, setCookie |-> FALSE,
     upgrade |-> None, encoded |-> FALSE, bulky |-> FALSE, failed |-> FALSE,
     badCertificate |-> FALSE, guard |-> None, signature |-> "valid", time |-> 0, number |-> 0]

Upload == [Plain EXCEPT !.method = "POST", !.size = 2, !.encoded = TRUE, !.failed = TRUE,
                        !.type = "json"]
Other == [Plain EXCEPT !.host = "i", !.rawIp = TRUE, !.path = "/other"]
Ask == [Plain EXCEPT !.kind = "ws", !.method = "out", !.size = 1, !.id = "x"]
Answer == [Ask EXCEPT !.method = "in", !.type = "reply"]
MCTraffic == {Upload, Other, Ask, Answer}
MCForeign == Put(NoFunction, "app", Put(NoFunction, "h", Unknown))
MCBudgets == {[sessions |-> 4, clicks |-> 0], [sessions |-> 3, clicks |-> 2]}

\* More findings never make a lesser level, and credentials in the clear always make the highest.
ASSUME MoreIsWorse ==
    LET some == {"raw_ip", "no_agent", "credentials", "idle", "beacon", "socket_encoded", "changed"}
        rank == [none |-> 0, notice |-> 1, suspicious |-> 2, high |-> 3]
        grade(findings) == rank[Level(Score(findings))]
    IN \A findings \in SUBSET some :
          /\ "credentials" \in findings => grade(findings) = 3
          /\ \A more \in some : grade(findings) <= grade(findings \cup {more})
=============================================================================
