------------------------------- MODULE SvcVc --------------------------------
(***************************************************************************)
(* One connection of a TCP service transport of libtirpc: svc_vc.c with    *)
(* the non-blocking half of xdr_rec.c (__xdrrec_getrec), driven by the     *)
(* loop of svc_getreq_common.  A connection is non-blocking when a maximum *)
(* record size was set (RPC_SVC_CONNMAXREC_SET), and then a call is put    *)
(* together in the input buffer over as many reads as it takes.            *)
(*                                                                         *)
(* Cells as in XdrRec: a header is HDR cells, a call needs CALL cells to   *)
(* decode, the rest are its arguments.                                     *)
(***************************************************************************)
EXTENDS Integers, Sequences

CONSTANTS Calls,      \* what the client sends: a sequence of records, each a
                      \* sequence of the lengths of its fragments
          Nonblock,   \* cd->nonblock
          RecvSize,   \* the receive buffer xdrrec_create allocated
          MaxRec,     \* cd->maxrec
          SockBuf     \* cells the socket takes before the client reads

HDR  == 2
CALL == 1
LIMIT == 2            \* the seconds write_vc waits for room in the socket

(* What the constants must satisfy; whoever instantiates them assumes it.  *)
SvcVcAssumption ==
  Nonblock \in BOOLEAN /\ MaxRec \in Nat /\ SockBuf \in Nat \ {0}

VARIABLES
  wire, sent, shut,   \* unread cells, how many were sent, the client's end
  have, hdr, last_frag, reclen, received, fbtbc,     \* struct rec_strm
  in_finger, in_boundry, size, buf,                  \* its input buffer
  strm_stat, x_id,                                   \* struct cf_conn
  pc,         \* poll, recv, body, dispatch, write, stat, destroyed
  handled,    \* the records handed to xdr_callmsg
  out, t0, now, sock   \* cells of the reply left, clock, socket's fill

recVars == <<have, hdr, last_frag, reclen, received, fbtbc, in_finger, in_boundry, size, buf>>
peer    == <<wire, sent, shut>>
wrVars  == <<out, t0, now, sock>>
vars    == <<recVars, peer, wrVars, strm_stat, x_id, pc, handled>>

Cell(c, k) == <<"item", c, k>>
Least(a, b) == IF a < b THEN a ELSE b
SumTo(s, n) == LET F[k \in 0 .. n] == IF k = 0 THEN 0 ELSE F[k - 1] + s[k] IN F[n]
Fragment(c, f) ==
  << <<"header", Calls[c][f], f = Len(Calls[c])>>, <<"rest">> >>
    \o [k \in 1 .. Calls[c][f] |-> Cell(c, SumTo(Calls[c], f - 1) + k)]
Message(c) == LET F[f \in 0 .. Len(Calls[c])] ==
                    IF f = 0 THEN <<>> ELSE F[f - 1] \o Fragment(c, f)
              IN F[Len(Calls[c])]
Messages == LET M[c \in 0 .. Len(Calls)] == IF c = 0 THEN <<>> ELSE M[c - 1] \o Message(c)
            IN M
Stream == Messages[Len(Calls)]
Record(c) == [k \in 1 .. SumTo(Calls[c], Len(Calls[c])) |-> Cell(c, k)]

(* makefd_xprt and rendezvous_request: a fresh record stream on an         *)
(* accepted socket, in the mode the maximum record size asks for.          *)
makefd_xprt ==
  /\ have = FALSE /\ hdr = <<>> /\ last_frag = TRUE /\ reclen = 0 /\ received = 0
  /\ fbtbc = 0 /\ size = RecvSize /\ in_finger = RecvSize /\ in_boundry = RecvSize
  /\ buf = <<>> /\ strm_stat = "IDLE" /\ x_id = 0

Init ==
  /\ makefd_xprt
  /\ wire = <<>> /\ sent = 0 /\ shut = FALSE
  /\ pc = "poll" /\ handled = <<>>
  /\ out = 0 /\ t0 = 0 /\ now = 0 /\ sock = 0

-----------------------------------------------------------------------------
(* The client.                                                             *)
ClientSend ==
  /\ ~shut /\ sent < Len(Stream)
  /\ wire' = Append(wire, Stream[sent + 1]) /\ sent' = sent + 1
  /\ UNCHANGED <<recVars, shut, wrVars, strm_stat, x_id, pc, handled>>

ClientShut ==
  /\ ~shut /\ shut' = TRUE
  /\ UNCHANGED <<recVars, wire, sent, wrVars, strm_stat, x_id, pc, handled>>

ClientReads ==
  /\ sock > 0 /\ sock' = 0
  /\ UNCHANGED <<recVars, peer, out, t0, now, strm_stat, x_id, pc, handled>>

(* poll reports the descriptor, svc_getreq_common enters its loop.         *)
Readable == wire /= <<>> \/ shut
Poll ==
  /\ pc = "poll" /\ Readable
  /\ pc' = "recv"
  /\ UNCHANGED <<recVars, peer, wrVars, strm_stat, x_id, handled>>

-----------------------------------------------------------------------------
(* __xdrrec_getrec with read_vc on a non-blocking descriptor.              *)

(* A read of nothing: the end of the connection, or nothing there yet.     *)
(* read_vc clears errno first, so the two are told apart.                  *)
ReadsNothing ==
  /\ wire = <<>>
  /\ strm_stat' = IF shut THEN "DIED" ELSE "IDLE"
  /\ pc' = "stat"

Rejects(fraglen) == fraglen = 0 \/ fraglen > MaxRec \/ reclen + fraglen > MaxRec

(* The input buffer grows to the record; in_finger keeps its offset while  *)
(* in_boundry moves to the end.                                            *)
realloc_stream(n) ==
  IF n > size THEN size' = n /\ in_boundry' = n ELSE UNCHANGED <<size, in_boundry>>

HeaderRead(k, h) ==
  /\ wire' = SubSeq(wire, k + 1, Len(wire))
  /\ CASE Len(h) < HDR ->
            /\ hdr' = h /\ strm_stat' = "MOREREQS" /\ pc' = "stat"
            /\ UNCHANGED <<have, last_frag, reclen, size, in_boundry>>
       [] Len(h) = HDR /\ Rejects(h[1][2]) ->
            /\ hdr' = h /\ strm_stat' = "DIED" /\ pc' = "stat"
            /\ UNCHANGED <<have, last_frag, reclen, size, in_boundry>>
       [] OTHER ->
            /\ hdr' = h /\ have' = TRUE
            /\ reclen' = reclen + h[1][2]
            /\ realloc_stream(reclen + h[1][2])
            /\ last_frag' = (last_frag \/ h[1][3])
            /\ pc' = "body" /\ UNCHANGED strm_stat

GetrecHeader ==
  /\ pc = "recv" /\ Nonblock /\ ~have
  /\ \/ ReadsNothing /\ UNCHANGED <<wire, hdr, have, last_frag, reclen, size, in_boundry>>
     \/ \E k \in 1 .. Least(HDR - Len(hdr), Len(wire)) :
          HeaderRead(k, hdr \o SubSeq(wire, 1, k))
  /\ UNCHANGED <<received, fbtbc, in_finger, buf, sent, shut, wrVars, x_id, handled>>

(* A call continued after its header goes straight to its body.            *)
GetrecContinued ==
  /\ pc = "recv" /\ Nonblock /\ have
  /\ pc' = "body"
  /\ UNCHANGED <<recVars, peer, wrVars, strm_stat, x_id, handled>>

(* svc_vc_recv: the record is complete, xdr_callmsg decodes it or the      *)
(* connection is given up.                                                 *)
Decode(rec) ==
  /\ handled' = Append(handled, rec)
  /\ IF Len(rec) >= CALL
     THEN /\ fbtbc' = Len(rec) - CALL /\ in_finger' = CALL
          /\ x_id' = rec[1][2] /\ pc' = "dispatch" /\ strm_stat' = "MOREREQS"
     ELSE /\ fbtbc' = Len(rec) /\ in_finger' = 0
          /\ pc' = "stat" /\ strm_stat' = "DIED" /\ UNCHANGED x_id

body_keeps_buffer(k, b) ==
  /\ wire' = SubSeq(wire, k + 1, Len(wire))
  /\ buf' = b
  /\ IF received + k = reclen
     THEN /\ have' = FALSE /\ hdr' = <<>> /\ reclen' = 0 /\ received' = 0
          /\ in_boundry' = reclen /\ Decode(b)
     ELSE /\ received' = received + k /\ strm_stat' = "MOREREQS" /\ pc' = "stat"
          /\ UNCHANGED <<have, hdr, reclen, fbtbc, in_finger, in_boundry, x_id, handled>>
BodyRead(k, b) ==
  /\ wire' = SubSeq(wire, k + 1, Len(wire))
  /\ IF received + k = reclen
     THEN /\ have' = FALSE /\ hdr' = <<>>
          /\ IF last_frag
             THEN /\ reclen' = 0 /\ received' = 0 /\ buf' = <<>>
                  /\ in_boundry' = reclen
                  /\ Decode(b)
             ELSE /\ received' = received + k /\ buf' = b
                  /\ strm_stat' = "MOREREQS" /\ pc' = "stat"
                  /\ UNCHANGED <<reclen, fbtbc, in_finger, in_boundry, x_id, handled>>
     ELSE /\ received' = received + k /\ buf' = b
          /\ strm_stat' = "MOREREQS" /\ pc' = "stat"
          /\ UNCHANGED <<have, hdr, reclen, fbtbc, in_finger, in_boundry, x_id, handled>>

GetrecBody ==
  /\ pc = "body"
  /\ \/ ReadsNothing /\ UNCHANGED <<wire, have, hdr, reclen, received, buf, fbtbc,
                                    in_finger, in_boundry, x_id, handled>>
     \/ \E k \in 1 .. Least(reclen - received, Len(wire)) :
          BodyRead(k, buf \o SubSeq(wire, 1, k))
  /\ UNCHANGED <<last_frag, size, sent, shut, wrVars>>

(* svc_vc_recv on a blocking connection: xdrrec_skiprecord and xdr_callmsg *)
(* wait in read_vc, up to 35 seconds a read; a timeout, an error and the   *)
(* end of the connection are fatal.                                        *)
RecordOnWire ==
  \E n \in 1 .. Len(Calls) : /\ n = Len(handled) + 1
                             /\ Len(wire) >= Len(Message(n))
BlockingRecv ==
  /\ pc = "recv" /\ ~Nonblock
  /\ \/ /\ RecordOnWire
        /\ LET n == Len(handled) + 1 IN
             /\ wire' = SubSeq(wire, Len(Message(n)) + 1, Len(wire))
             /\ handled' = Append(handled, Record(n))
             /\ x_id' = n /\ pc' = "dispatch" /\ UNCHANGED strm_stat
     \/ /\ ~RecordOnWire
        /\ strm_stat' = "DIED" /\ pc' = "stat"
        /\ UNCHANGED <<wire, handled, x_id>>
  /\ UNCHANGED <<recVars, sent, shut, wrVars>>

(* The dispatch routine: svc_vc_getargs reads the rest of the record or    *)
(* part of it, then svc_vc_reply begins to write.                          *)
Dispatch ==
  /\ pc = "dispatch"
  /\ \E n \in {0, fbtbc} : fbtbc' = fbtbc - n /\ in_finger' = in_finger + n
  /\ out' = HDR + 1 /\ t0' = now /\ pc' = "write"
  /\ UNCHANGED <<have, hdr, last_frag, reclen, received, in_boundry, size, buf,
                 peer, now, sock, strm_stat, x_id, handled>>

(* write_vc: what the socket takes; without room a non-blocking write is   *)
(* repeated for LIMIT seconds, a blocking one waits.                       *)
write_vc ==
  /\ pc = "write" /\ out > 0 /\ sock < SockBuf
  /\ LET n == Least(out, SockBuf - sock) IN out' = out - n /\ sock' = sock + n
  /\ UNCHANGED <<recVars, peer, t0, now, strm_stat, x_id, pc, handled>>
WriteAgain ==
  /\ pc = "write" /\ out > 0 /\ sock = SockBuf /\ Nonblock
  /\ now - t0 >= LIMIT
  /\ strm_stat' = "DIED" /\ pc' = "stat" /\ out' = 0
  /\ UNCHANGED <<recVars, peer, t0, now, sock, x_id, handled>>
WriteDone ==
  /\ pc = "write" /\ out = 0
  /\ pc' = "stat"
  /\ UNCHANGED <<recVars, peer, wrVars, strm_stat, x_id, handled>>
Clock ==
  /\ pc = "write" /\ now - t0 < LIMIT
  /\ now' = now + 1
  /\ UNCHANGED <<recVars, peer, out, t0, sock, strm_stat, x_id, pc, handled>>

(* svc_vc_stat: a dead connection is destroyed.  Otherwise xdrrec_eof      *)
(* drops the rest of the record and looks for more input in the buffer; on *)
(* a non-blocking stream it cannot read.                                   *)
svc_vc_stat ==
  /\ pc = "stat"
  /\ IF strm_stat = "DIED" THEN pc' = "destroyed" /\ UNCHANGED <<fbtbc, in_finger>>
     ELSE IF ~Nonblock THEN pc' \in {"poll", "recv"} /\ (pc' = "recv" => wire /= <<>>)
                            /\ UNCHANGED <<fbtbc, in_finger>>
     ELSE LET finger == Least(in_finger + fbtbc, in_boundry) IN
          /\ in_finger' = finger
          /\ fbtbc' = IF in_boundry - in_finger >= fbtbc THEN 0 ELSE fbtbc
          /\ pc' = IF finger = in_boundry \/ ~last_frag THEN "poll" ELSE "recv"
  /\ UNCHANGED <<have, hdr, last_frag, reclen, received, in_boundry, size, buf,
                 peer, wrVars, strm_stat, x_id, handled>>

-----------------------------------------------------------------------------
Server == Poll \/ GetrecHeader \/ GetrecContinued \/ GetrecBody \/ BlockingRecv
            \/ Dispatch \/ write_vc \/ WriteAgain \/ WriteDone \/ svc_vc_stat
Next == Server \/ Clock \/ ClientSend \/ ClientShut \/ ClientReads

Spec == Init /\ [][Next]_vars
(* The server's loop runs and time passes; the client owes nothing.        *)
FairSpec == Spec /\ WF_vars(Server) /\ WF_vars(Clock)

-----------------------------------------------------------------------------
(* Types, and what struct rec_strm may hold: a record in progress is no    *)
(* longer than maxrec, fits the buffer, and is never read past.            *)
TypeOK ==
  /\ pc \in {"poll", "recv", "body", "dispatch", "write", "stat", "destroyed"}
  /\ strm_stat \in {"IDLE", "MOREREQS", "DIED"}
  /\ have \in BOOLEAN /\ Len(hdr) \in 0 .. HDR
  /\ reclen \in 0 .. MaxRec /\ reclen <= size /\ received \in 0 .. reclen
  /\ in_finger \in 0 .. in_boundry /\ in_boundry <= size

(* "Fill the stream buffer with a record for a non-blocking connection.    *)
(* Return true if a record is available in the buffer" (xdr_rec.c:523):    *)
(* what svc_vc_recv decodes are the client's records, whole and in order,  *)
(* however the reads cut them.                                             *)
RecordsWhole ==
  /\ Len(handled) <= Len(Calls)
  /\ \A n \in 1 .. Len(handled) : handled[n] = Record(n)

(* A call that arrived whole is decoded or the connection is destroyed.    *)
CallHandled ==
  \A n \in 1 .. Len(Calls) :
    []<>(\/ sent < Len(Messages[n]) \/ Len(handled) >= n \/ pc = "destroyed"
         \/ out > 0 /\ ~Nonblock)

(* svc_getreq_common does not stay with one connection: when its input is  *)
(* used up, the loop goes back to poll, so that the other connections are  *)
(* served although this client sends nothing more.                         *)
LoopEnds == []<>(pc \in {"poll", "destroyed"} \/ (out > 0 /\ ~Nonblock))

(* A client that closes its side does not leave its transport behind.      *)
ShutNoticed == []<>(~shut \/ pc = "destroyed" \/ (out > 0 /\ ~Nonblock))
=============================================================================
