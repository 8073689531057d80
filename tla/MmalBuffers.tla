----------------------------- MODULE MmalBuffers -----------------------------
(***************************************************************************)
(* Buffers lent to the VideoCore and fetched back (hal/src/mmal.rs over     *)
(* hal/src/vchiq.rs): a table of buffers whose places are the contexts the  *)
(* firmware quotes, a queue of outstanding bulk receives matched to their   *)
(* completions by order alone, and a page list for each that says where the *)
(* bytes go.  The calls that send and poll are made by one task.  The        *)
(* firmware is external: it gives buffers back in any order, with bytes to  *)
(* fetch or without, and moves the fetches it was asked for in order.       *)
(***************************************************************************)
EXTENDS FiniteSets, Naturals, Sequences

CONSTANTS Buffers,   \* the caller's buffers
          Entries,   \* MAX_BUFFERS
          Bulks,     \* MAX_BULKS, of one direction
          Early,     \* whether the firmware reads a page list as it takes the request
          Free       \* no entry, no buffer

VARIABLES table,     \* buffers: [buf, state] or Free
          returned,  \* entries finished and not handed back yet
          bulk,      \* bulk_rx: entry each outstanding receive is for, or Free
          lists,     \* the buffer each page list names
          mine,      \* buffers in the caller's hands
          firm,      \* entries the firmware holds
          offered,   \* buffers whose bytes wait for a fetch
          asked,     \* fetches the firmware was asked for: [list, to]
          back,      \* messages to this side: [kind, entry, data]
          holds,     \* whose bytes are in a buffer
          failed     \* history: a fetch was refused or could not be sent

driver == <<table, returned, bulk, lists>>
firmware == <<firm, offered, asked, back, holds>>
vars == <<driver, mine, firmware, failed>>

Entry == 0..Entries - 1
Index == 0..Bulks - 1
FirstFree(f, S) == CHOOSE i \in S : f[i] = Free /\ \A j \in S : f[j] = Free => i <= j
FreeIn(f, S) == \E i \in S : f[i] = Free
Held(i, b, s) == [table EXCEPT ![i] = [buf |-> b, state |-> s]]

Init == /\ table = [i \in Entry |-> Free] /\ returned = <<>>
        /\ bulk = [i \in Index |-> Free] /\ lists = [i \in Index |-> Free]
        /\ mine = Buffers /\ firm = {} /\ offered = <<>> /\ asked = <<>> /\ back = <<>>
        /\ holds = [b \in Buffers |-> Free] /\ failed = FALSE

-----------------------------------------------------------------------------
(* The caller's task *)

\* send_buffer: the first free entry, and the message that lends the buffer.
SendBuffer(b) == /\ b \in mine /\ FreeIn(table, Entry)
                 /\ LET i == FirstFree(table, Entry)
                    IN table' = Held(i, b, "with") /\ firm' = firm \cup {i}
                 /\ mine' = mine \ {b}
                 /\ UNCHANGED <<returned, bulk, lists, offered, asked, back, holds, failed>>

\* send_buffer, the transport still full at the deadline: the entry stays taken.
SendTimesOut(b) == /\ b \in mine /\ FreeIn(table, Entry)
                   /\ table' = Held(FirstFree(table, Entry), b, "with")
                   /\ mine' = mine \ {b}
                   /\ UNCHANGED <<returned, bulk, lists, firmware, failed>>

\* pump, on_buffer_to_host: a failure, an empty buffer or bytes that came along finish it at once.
Finish == /\ back # <<>> /\ Head(back).kind = "back" /\ ~Head(back).data
          /\ LET i == Head(back).entry
             IN table' = Held(i, table[i].buf, "returned") /\ returned' = Append(returned, i)
          /\ back' = Tail(back)
          /\ UNCHANGED <<bulk, lists, mine, firm, offered, asked, holds, failed>>

Receiving == back # <<>> /\ Head(back).kind = "back" /\ Head(back).data

\* Mutant: the request quotes the first page list whatever place the transfer took.
FetchFirst == /\ Receiving /\ FreeIn(bulk, Index)
              /\ LET i == Head(back).entry
                     b == table[i].buf
                     n == FirstFree(bulk, Index)
                 IN /\ table' = Held(i, b, "receiving")
                    /\ bulk' = [bulk EXCEPT ![n] = i] /\ lists' = [lists EXCEPT ![n] = b]
                    /\ asked' = Append(asked, [list |-> 0, to |-> lists'[0]])
              /\ back' = Tail(back)
              /\ UNCHANGED <<returned, mine, firm, offered, holds, failed>>

\* on_buffer_to_host with bytes to fetch, queue_bulk: the place in the queue chooses the page list.
Fetch == /\ Receiving /\ FreeIn(bulk, Index)
         /\ LET i == Head(back).entry
                b == table[i].buf
                n == FirstFree(bulk, Index)
            IN /\ table' = Held(i, b, "receiving")
               /\ bulk' = [bulk EXCEPT ![n] = i] /\ lists' = [lists EXCEPT ![n] = b]
               /\ asked' = Append(asked, [list |-> n, to |-> b])
         /\ back' = Tail(back)
         /\ UNCHANGED <<returned, mine, firm, offered, holds, failed>>

\* queue_bulk, the message finding no slot: the entry and its place in the queue stay.
FetchUnsent == /\ Receiving /\ FreeIn(bulk, Index)
               /\ LET i == Head(back).entry
                      n == FirstFree(bulk, Index)
                  IN /\ table' = Held(i, table[i].buf, "receiving")
                     /\ bulk' = [bulk EXCEPT ![n] = i] /\ lists' = [lists EXCEPT ![n] = table[i].buf]
               /\ back' = Tail(back) /\ failed' = TRUE
               /\ UNCHANGED <<returned, mine, firm, offered, asked, holds>>

\* queue_bulk, TooManyBulks: the message is gone, the entry waits for a transfer nobody starts.
FetchRefused == /\ Receiving /\ ~FreeIn(bulk, Index)
                /\ LET i == Head(back).entry IN table' = Held(i, table[i].buf, "receiving")
                /\ back' = Tail(back) /\ failed' = TRUE
                /\ UNCHANGED <<returned, bulk, lists, mine, firm, offered, asked, holds>>

Done == back # <<>> /\ Head(back).kind = "done"
Rotated(f) == [i \in Index |-> IF i = Bulks - 1 THEN Free ELSE f[i + 1]]
Complete(i, queue) == /\ bulk' = queue
                      /\ table' = Held(i, table[i].buf, "returned") /\ returned' = Append(returned, i)
                      /\ back' = Tail(back)
                      /\ UNCHANGED <<lists, mine, firm, offered, asked, holds, failed>>

\* parse, MSG_BULK_RX_DONE, and pump: the oldest outstanding transfer is this one.
Fetched == Done /\ bulk[0] # Free /\ Complete(bulk[0], Rotated(bulk))

\* take_returned: the oldest finished buffer is the caller's again.
HandOver == /\ returned # <<>> /\ table[Head(returned)] # Free
            /\ table' = [table EXCEPT ![Head(returned)] = Free]
            /\ mine' = mine \cup {table[Head(returned)].buf}
            /\ returned' = Tail(returned)
            /\ UNCHANGED <<bulk, lists, firmware, failed>>

-----------------------------------------------------------------------------
(* The firmware *)

GiveBack(i) == /\ i \in firm /\ firm' = firm \ {i}
               /\ \E data \in BOOLEAN :
                    /\ back' = Append(back, [kind |-> "back", entry |-> i, data |-> data])
                    /\ offered' = IF data THEN Append(offered, table[i].buf) ELSE offered
               /\ UNCHANGED <<driver, mine, asked, holds, failed>>

Move == /\ asked # <<>> /\ offered # <<>>
        /\ LET to == IF Early THEN Head(asked).to ELSE lists[Head(asked).list]
           IN holds' = [holds EXCEPT ![to] = Head(offered)]
        /\ asked' = Tail(asked) /\ offered' = Tail(offered)
        /\ back' = Append(back, [kind |-> "done", entry |-> 0, data |-> FALSE])
        /\ UNCHANGED <<driver, mine, firm, failed>>

Pump == Finish \/ Fetch \/ FetchUnsent \/ FetchRefused \/ Fetched
Next == \/ \E b \in Buffers : SendBuffer(b) \/ SendTimesOut(b)
        \/ Pump \/ HandOver \/ Move \/ \E i \in Entry : GiveBack(i)
Spec == Init /\ [][Next]_vars

\* poll is called regularly, and the firmware works its queues off.
FairSpec == Spec /\ WF_vars(Pump) /\ WF_vars(HandOver) /\ WF_vars(Move)
                 /\ \A i \in Entry : WF_vars(GiveBack(i))

-----------------------------------------------------------------------------
(* Properties *)

Message == [kind: {"back", "done"}, entry: Entry, data: BOOLEAN]

TypeOK == /\ table \in [Entry -> {Free} \cup [buf: Buffers, state: {"with", "receiving", "returned"}]]
          /\ returned \in Seq(Entry) /\ bulk \in [Index -> {Free} \cup Entry]
          /\ lists \in [Index -> {Free} \cup Buffers] /\ mine \subseteq Buffers /\ firm \subseteq Entry
          /\ offered \in Seq(Buffers) /\ asked \in Seq([list: Index, to: Buffers]) /\ back \in Seq(Message)
          /\ holds \in [Buffers -> {Free} \cup Buffers] /\ failed \in BOOLEAN

\* The firmware may still write into this buffer.
Target(k) == IF Early THEN asked[k].to ELSE lists[asked[k].list]

\* Memory is the caller's again only when the firmware will not write into it, whatever was refused
\* or never sent in between, if Early.
HandedBackIsQuiet == \A k \in DOMAIN asked : Target(k) \notin mine

\* A buffer fetched into holds its own bytes when it is given back: matching completions by order
\* alone gives each back with what was meant for it.  Not so once a fetch was refused or could not
\* be sent (queue_bulk records the transfer, vchiq.rs:1051, before the message may fail, 1088):
\* every completion after it is taken for an older transfer.  Nor with Early FALSE: a list is
\* written anew while the transfer it was written for is under way (OneListEach).
OwnBytes == ~failed => \A i \in Entry : (table[i] # Free /\ table[i].state = "returned"
                                         /\ holds[table[i].buf] # Free)
                                        => holds[table[i].buf] = table[i].buf

Completions == Cardinality({k \in DOMAIN back : back[k].kind = "done"})
Outstanding == {n \in Index : bulk[n] # Free}

\* As long as no fetch was refused, the queue says what is in flight: as many places taken as there
\* are fetches asked for or announced done, the youngest of them last and no hole between.
QueueInStep == ~failed => /\ Outstanding = 0..(Len(asked) + Completions - 1)
                          /\ \A k \in DOMAIN asked : LET i == bulk[Completions + k - 1]
                                                    IN i # Free /\ table[i].buf = asked[k].to

\* vchiq.rs:1062 "One page list per in-flight transfer": no two that the firmware was asked for and
\* has not moved share one.  Not so: a completion moves the places of the queue on (987), and the
\* next transfer takes a place whose list a transfer under way still has.
OneListEach == \A k, m \in DOMAIN asked : k # m => asked[k].list # asked[m].list

\* The message that would have lent this buffer was never sent: its entry is taken for good.
Stranded(b) == \E i \in Entry \ firm : /\ table[i] # Free /\ table[i].buf = b /\ table[i].state = "with"
                                       /\ \A k \in DOMAIN back : back[k].kind = "back" => back[k].entry # i

\* Every buffer lent comes back, but for one whose message was never sent, and as long as no fetch
\* was refused or could not be sent.
Away(b) == b \notin mine /\ ~failed /\ ~Stranded(b)
ComesBack == \A b \in Buffers : Away(b) ~> ~Away(b)
=============================================================================
