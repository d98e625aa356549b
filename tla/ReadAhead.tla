------------------------------ MODULE ReadAhead -------------------------------
(* A field read from a file, one period in advance. The ranks of the client  *)
(* ask the server for a record at the end of the definition and then each    *)
(* time their calendar gets to the date of the last one they asked for; a    *)
(* request is a collective event, so they must all send it or none. The      *)
(* server reads its records one after the other. What a client gets is dated *)
(* by counting the replies. After the end of the file the client makes the   *)
(* replies itself.                                                           *)
(*                                                                           *)
(* Dates count the time steps since the first date of the calendar.          *)
EXTENDS Integers, Sequences, FiniteSets

CONSTANTS Ranks,     \* the ranks of the client context
          Freq,      \* output_freq of the file
          Offset,    \* freq_offset of the field
          Records,   \* the number of records in the file
          First,     \* record_offset of the file
          Cyclic,    \* the records are read again and again
          LastDate   \* the run stops there

ReadAheadAssumption ==
  /\ Freq \in Nat \ {0} /\ Offset \in Nat /\ Records \in Nat
  /\ Offset < Freq /\ First \in Nat /\ Cyclic \in BOOLEAN /\ LastDate \in Nat

EOF == -1

VARIABLES date,        \* per rank, the date of the calendar
          requested,   \* lastDataRequestedFromServer_
          requests,    \* how many requests the rank has sent
          gotOne,      \* wasDataAlreadyReceived_
          lastDate,    \* lastDateReceived_
          isEOF,
          dateEOF,
          packets,     \* what waits in the source and in the store: <<date, record>>
          model,       \* "runs", "asks" for the field, has been told the "end"
          replies,     \* per rank, the replies on their way
          served,      \* the requests the server has handled
          nStep        \* the next record it reads

client == <<requested, requests, gotOne, lastDate, isEOF, dateEOF>>
server == <<served, nStep>>
vars == <<date, client, packets, model, replies, server>>

(* The state at the end of CContext::closeDefinition: the first request has  *)
(* been sent.                                                                *)
Init ==
  /\ date = [r \in Ranks |-> 0]
  /\ requested = [r \in Ranks |-> 0]
  /\ requests = [r \in Ranks |-> 1]
  /\ gotOne = [r \in Ranks |-> FALSE]
  /\ lastDate = [r \in Ranks |-> 0]
  /\ isEOF = [r \in Ranks |-> FALSE]
  /\ dateEOF = [r \in Ranks |-> 0]
  /\ packets = [r \in Ranks |-> {}]
  /\ model = [r \in Ranks |-> "runs"]
  /\ replies = [r \in Ranks |-> <<>>]
  /\ served = 0
  /\ nStep = First

(* A read past the end raises an error, which stops the program.             *)
Running == \A r \in Ranks : model[r] # "end"

-----------------------------------------------------------------------------
(* The server.                                                               *)

(* (a slip: a cyclic file ends as any other)                                 *)
ReadOnce(n) == IF Records = 0 \/ n >= Records THEN EOF ELSE n % Records

RecordAt(n) ==
  IF Records = 0 \/ (n >= Records /\ ~Cyclic) THEN EOF ELSE n % Records

(* A request is handled when all the ranks have sent it: the record goes     *)
(* through the filters of the server to every rank.                          *)
StreamData ==
  /\ Running
  /\ \A r \in Ranks : requests[r] > served
  /\ replies' = [r \in Ranks |-> Append(replies[r], RecordAt(nStep))]
  /\ nStep' = nStep + 1
  /\ served' = served + 1
  /\ UNCHANGED <<date, client, packets, model>>

-----------------------------------------------------------------------------
(* The client.                                                               *)

(* (a slip: the first reply is dated as the next ones)                       *)
CountsAll(r) == lastDate[r] + Freq

DateOfReply(r) == IF gotOne[r] THEN lastDate[r] + Freq ELSE lastDate[r]

(* A reply comes in one of the event loops the rank goes through.            *)
Receive(r) ==
  /\ Running /\ replies[r] # <<>>
  /\ LET record == Head(replies[r])
         d == DateOfReply(r)
     IN /\ lastDate' = [lastDate EXCEPT ![r] = d]
        /\ isEOF' = [isEOF EXCEPT ![r] = (record = EOF)]
        /\ dateEOF' = [dateEOF EXCEPT ![r] = IF record = EOF /\ ~isEOF[r] THEN d ELSE @]
        /\ packets' = [packets EXCEPT ![r] = @ \cup {<<d + Offset, record>>}]
  /\ gotOne' = [gotOne EXCEPT ![r] = TRUE]
  /\ replies' = [replies EXCEPT ![r] = Tail(@)]
  /\ UNCHANGED <<date, requested, requests, model, server>>

(* (a slip: no request as soon as the rank has heard of the end)             *)
UnlessAtEnd(r, now) == ~isEOF[r]

(* The other ranks may not have heard of the end before the date after it.   *)
AsksServer(r, now) == ~isEOF[r] \/ now <= dateEOF[r]

(* (a slip: two periods ahead)                                               *)
ToAskTwo(r, now) ==
  IF now >= requested[r] - Freq THEN (now - requested[r] + Freq) \div Freq + 1 ELSE 0

(* How many times the loop of sendReadDataRequestIfNeeded turns.             *)
ToAsk(r, now) ==
  IF now >= requested[r] THEN (now - requested[r]) \div Freq + 1 ELSE 0

(* (a slip: nothing is made of the request that is not sent)                 *)
NoReplyMade(r, n) == {}

(* The replies the client makes itself; they have the date requested.        *)
OwnReplies(r, n) == {<<requested[r] + i * Freq, EOF>> : i \in 1..n}

IsDataLate(r) == (IF gotOne[r] THEN lastDate[r] + Freq ELSE 0) <= date[r]

(* CContext::updateCalendar: waits for the data that are due, unless at the  *)
(* end, asks for the next ones, and throws away what is older. What is       *)
(* triggered on the way has the old date, and is thrown away with the rest.  *)
UpdateCalendar(r) ==
  /\ Running /\ model[r] = "runs" /\ date[r] < LastDate
  /\ isEOF[r] \/ ~IsDataLate(r)
  /\ LET now == date[r] + 1
         n == ToAsk(r, now)
         own == IF AsksServer(r, now) THEN {} ELSE OwnReplies(r, n)
     IN /\ date' = [date EXCEPT ![r] = now]
        /\ requested' = [requested EXCEPT ![r] = @ + n * Freq]
        /\ requests' = [requests EXCEPT ![r] = IF AsksServer(r, now) THEN @ + n ELSE @]
        /\ packets' = [packets EXCEPT ![r] = {p \in @ \cup own : p[1] >= now}]
  /\ UNCHANGED <<gotOne, lastDate, isEOF, dateEOF, model, replies, server>>

(* The model asks for the field, at a date it has a record for or would have *)
(* one if the file were longer, and waits for it.                            *)
GetData(r) ==
  /\ Running /\ model[r] = "runs"
  /\ date[r] >= Offset /\ (date[r] - Offset) % Freq = 0
  /\ model' = [model EXCEPT ![r] = "asks"]
  /\ UNCHANGED <<date, client, packets, replies, server>>

PacketFound(r) ==
  /\ Running /\ model[r] = "asks"
  /\ \E p \in packets[r] :
       /\ p[1] = date[r]
       /\ model' = [model EXCEPT ![r] = IF p[2] = EOF THEN "end" ELSE "runs"]
  /\ UNCHANGED <<date, client, packets, replies, server>>

(* One more turn of the loop of a rank that waits: getPacket, or             *)
(* checkForLateData (the timeout that ends them is not modelled).            *)
Waits(r) ==
  /\ Running
  /\ \/ model[r] = "asks" /\ \A p \in packets[r] : p[1] # date[r]
     \/ model[r] = "runs" /\ ~isEOF[r] /\ IsDataLate(r)
  /\ UNCHANGED vars

Done ==
  /\ Running => \A r \in Ranks : date[r] = LastDate /\ replies[r] = <<>> /\ model[r] = "runs"
  /\ UNCHANGED vars

Next ==
  \/ StreamData
  \/ \E r \in Ranks : Receive(r) \/ UpdateCalendar(r) \/ GetData(r) \/ PacketFound(r)
                      \/ Waits(r)
  \/ Done

(* The server's event loop runs on, and a client that waits goes through its *)
(* own event loops; the model, which may read its field several times at a   *)
(* date, goes on to its last date.                                           *)
Fairness ==
  /\ WF_vars(StreamData)
  /\ \A r \in Ranks : /\ WF_vars(Receive(r))
                      /\ WF_vars(PacketFound(r))
                      /\ SF_vars(UpdateCalendar(r))

Spec == Init /\ [][Next]_vars /\ Fairness

-----------------------------------------------------------------------------
TypeOK ==
  /\ date \in [Ranks -> 0..LastDate]
  /\ requested \in [Ranks -> 0..LastDate + Freq]
  /\ \A r \in Ranks : requests[r] \in Nat /\ lastDate[r] \in 0..LastDate + Freq
  /\ model \in [Ranks -> {"runs", "asks", "end"}]
  /\ served \in Nat /\ nStep \in Nat
  /\ gotOne \in [Ranks -> BOOLEAN] /\ isEOF \in [Ranks -> BOOLEAN]

(* Two ranks at the same date have sent the same requests, although one may  *)
(* have heard of the end of the file and not the other                       *)
(* (sendReadDataRequest).                                                    *)
SameRequests ==
  \A r, q \in Ranks : date[r] = date[q] => requests[r] = requests[q]

(* What the model would be given at a date is the record of that date, and   *)
(* one packet only: the count of the replies follows the server's.           *)
RightRecord ==
  \A r \in Ranks : \A p \in packets[r] :
    /\ (p[1] - Offset) % Freq = 0
    /\ p[2] = RecordAt(First + (p[1] - Offset) \div Freq)

(* Until the end of the file, reading ahead costs a rank two packets of a    *)
(* field at most, with those on their way.                                   *)
TwoAhead ==
  \A r \in Ranks : ~isEOF[r] =>
    Len(replies[r]) + Cardinality({p \in packets[r] : p[1] >= date[r]}) <= 2

(* A rank that asks for its field gets it, or is told that all the records   *)
(* have been read (CField::getData).                                         *)
ReadsAnswered ==
  \A r \in Ranks : model[r] = "asks" ~> (model[r] = "runs" \/ ~Running)

(* Every rank gets to its last date, or the model read past the end.         *)
AllEnd == <>(~Running \/ \A r \in Ranks : date[r] = LastDate)
=============================================================================
