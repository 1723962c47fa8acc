------------------------------ MODULE TcpWorker ------------------------------
(***************************************************************************)
(* One connection of TCPServer: the peer's byte stream, the worker thread  *)
(* running TCPServer::process_client, and parse_command.                   *)
(*                                                                         *)
(* Each recv returns whatever part of the stream has arrived. The worker   *)
(* parses that one buffer: no '\n' gives the reply "Newline not found";    *)
(* otherwise the text up to the first '\n' goes to the command callback    *)
(* and the rest of the buffer is dropped. Then it writes one reply. It     *)
(* exits on a recv error, a zero-byte read, or a failed write.             *)
(*                                                                         *)
(* A command line is two units of the stream: its head, and its tail with  *)
(* the '\n'. A recv takes any non-empty prefix of the units in flight.     *)
(* The callback's effect is the Supervisor model; here only which line it  *)
(* was given matters.                                                      *)
(***************************************************************************)
EXTENDS Naturals, Sequences

CONSTANTS
    NLines,   \* command lines the peer may send on the connection
    SendBuf   \* replies the socket buffers hold before write() blocks

ASSUME NLines \in Nat \ {0} /\ SendBuf \in Nat \ {0}

Lines == 1..NLines
Units == [line : Lines, nl : BOOLEAN]
\* Every reply answers a non-empty recv, so at most one per unit is ever
\* written; the bound caps the history only in models of a looping worker.
MaxReplies == 2 * NLines
Garbage == 0     \* a reply to no whole line: a parse or "unknown command" error

VARIABLES
    sent,     \* lines the peer has written so far
    inflight, \* units written by the peer and not yet received by the worker
    peerWr,   \* the peer's sending side: "open", or closed ("shut")
    peerRd,   \* the peer's receiving side: "open", or closed ("shut")
    wpc,      \* worker: "recv", "write" (a reply to write), "exited"
    reply,    \* the reply the worker is about to write
    outbuf,   \* replies written and not yet read by the peer
    replied   \* history: every reply the worker wrote, in order

vars == <<sent, inflight, peerWr, peerRd, wpc, reply, outbuf, replied>>

Init ==
    /\ sent = 0
    /\ inflight = << >>
    /\ peerWr = "open" /\ peerRd = "open"
    /\ wpc = "recv"
    /\ reply = Garbage
    /\ outbuf = << >>
    /\ replied = << >>

(***************************************************************************)
(* Seeded faults: plausible slips in the code below, used as mutants.      *)
(***************************************************************************)
RecvZeroNoBreak ==
    /\ wpc = "recv" /\ inflight = << >> /\ peerWr = "shut"
    /\ wpc' = "write" /\ reply' = Garbage
    /\ UNCHANGED <<sent, inflight, peerWr, peerRd, outbuf, replied>>

(***************************************************************************)
(* parse_command and the callback.                                         *)
(***************************************************************************)
\* The position of the first unit holding '\n' in buffer b, or 0 (npos).
NewlinePos(b) ==
    IF \E k \in 1..Len(b) : b[k].nl
    THEN CHOOSE k \in 1..Len(b) : b[k].nl /\ \A j \in 1..(k - 1) : ~b[j].nl
    ELSE 0

\* The reply to one recv buffer b: "Newline not found" without a '\n';
\* otherwise the result of data.substr(0, newline_pos + 1), which is
\* command line i only when it is exactly the head and tail of line i.
Parse(b) ==
    LET p == NewlinePos(b) IN
    IF p = 2 /\ b[1].line = b[2].line THEN b[2].line ELSE Garbage

(***************************************************************************)
(* The peer.                                                               *)
(***************************************************************************)
\* The peer writes its next command line (without waiting for replies).
PeerSend ==
    /\ peerWr = "open"
    /\ sent < NLines
    /\ sent' = sent + 1
    /\ inflight' = inflight \o << [line |-> sent + 1, nl |-> FALSE],
                                  [line |-> sent + 1, nl |-> TRUE] >>
    /\ UNCHANGED <<peerWr, peerRd, wpc, reply, outbuf, replied>>

\* The peer reads one reply.
PeerRead ==
    /\ peerRd = "open"
    /\ outbuf # << >>
    /\ outbuf' = Tail(outbuf)
    /\ UNCHANGED <<sent, inflight, peerWr, peerRd, wpc, reply, replied>>

\* shutdown(SHUT_WR): the peer keeps reading.
PeerHalfClose ==
    /\ peerWr = "open"
    /\ peerWr' = "shut"
    /\ UNCHANGED <<sent, inflight, peerRd, wpc, reply, outbuf, replied>>

\* close(): both directions; unread replies are discarded.
PeerClose ==
    /\ peerRd = "open"
    /\ peerWr' = "shut" /\ peerRd' = "shut"
    /\ outbuf' = << >>
    /\ UNCHANGED <<sent, inflight, wpc, reply, replied>>

(***************************************************************************)
(* TCPServer::process_client.                                              *)
(***************************************************************************)
\* client.recv returns some of the units in flight; the buffer is parsed
\* and the command, if any, is handed to on_recv_.
Recv ==
    /\ wpc = "recv"
    /\ \E k \in 1..Len(inflight) :
          /\ reply' = Parse(SubSeq(inflight, 1, k))
          /\ inflight' = SubSeq(inflight, k + 1, Len(inflight))
    /\ wpc' = "write"
    /\ UNCHANGED <<sent, peerWr, peerRd, outbuf, replied>>

\* recv returns 0: the peer closed its sending side; break, close, exit.
RecvZero ==
    /\ wpc = "recv" /\ inflight = << >> /\ peerWr = "shut"
    /\ wpc' = "exited"
    /\ UNCHANGED <<sent, inflight, peerWr, peerRd, reply, outbuf, replied>>

\* recv fails: the peer reset the connection; break, close, exit.
RecvError ==
    /\ wpc = "recv" /\ peerRd = "shut"
    /\ wpc' = "exited"
    /\ UNCHANGED <<sent, inflight, peerWr, peerRd, reply, outbuf, replied>>

\* client.write of the reply and "\n". It blocks while the socket buffers
\* are full. Once the peer has closed, the first write may still succeed
\* (the data is discarded and the peer answers with a reset) or it fails
\* (SIGPIPE is ignored, so the error is returned) and the loop breaks.
Write ==
    /\ wpc = "write"
    /\ Len(replied) < MaxReplies
    /\ \/ /\ peerRd = "open" /\ Len(outbuf) < SendBuf
          /\ outbuf' = Append(outbuf, reply)
          /\ wpc' = "recv"
       \/ /\ peerRd = "shut"
          /\ wpc' \in {"recv", "exited"}
          /\ UNCHANGED outbuf
    /\ replied' = Append(replied, reply)
    /\ UNCHANGED <<sent, inflight, peerWr, peerRd, reply>>

Peer == PeerSend \/ PeerRead \/ PeerHalfClose \/ PeerClose
Worker == Recv \/ RecvZero \/ RecvError \/ Write

Next == Peer \/ Worker

\* The worker thread is scheduled by the OS. Of the peer only reading is
\* assumed: DaemonClient reads the reply to every command it sends. A peer
\* that neither reads nor closes blocks the worker in write() for good.
Spec == Init /\ [][Next]_vars /\ WF_vars(Worker) /\ WF_vars(PeerRead)

(***************************************************************************)
(* Properties.                                                             *)
(***************************************************************************)
\* Once the peer has stopped sending, the detached worker thread exits
\* and closes its socket, whether or not the peer still reads.
WorkerExits == peerWr = "shut" ~> wpc = "exited"

\* The worker answers the lines in the order sent, one reply per line
\* (spec.md §4.6: read until '\n', hand over the line, write the reply).
RepliesMatchLines ==
    \A k \in 1..Len(replied) : replied[k] = k

=============================================================================
