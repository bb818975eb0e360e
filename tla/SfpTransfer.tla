---------------------------- MODULE SfpTransfer ----------------------------
(***************************************************************************)
(* Large transfers over one connection (src/src/connection.rs): sfp_send's *)
(* read callback hands libcsp one fragment after the other, sfp_recv's     *)
(* write callback assembles them in a Vec, and either side's progress      *)
(* callback may abort.  libcsp's fragment loop and its in-order check are  *)
(* external.  The connection is RDP (ordered, reliable) or plain: then     *)
(* fragments may be lost, duplicated and reordered, and those of two       *)
(* transfers meet in one queue.                                            *)
(***************************************************************************)
EXTENDS Integers, Sequences, SequencesExt, CspError

CONSTANTS
  Transfers,   \* bound: transfers sent one after the other
  Receives,    \* bound: calls of sfp_recv
  Lengths,     \* the data.len() tried, 0 and 2^32 and more among them
  Mtu,         \* the mtu argument
  Wrap         \* 2^32, scaled down: lengths and offsets are u32

ASSUME SfpTransferAssumption ==
  /\ {Transfers, Receives, Mtu, Wrap} \subseteq Nat \ {0}
  /\ Lengths \subseteq Nat

VARIABLES
  rdp,         \* the connection was opened with RDP
  xfer,        \* the sender's transfer: 1, 2, ...; 0 before the first
  length,      \* length[x]: data.len() of transfer x
  offset,      \* the next offset libcsp asks the read callback for
  sender,      \* "idle", "sending", "ok", or the error returned
  net,         \* fragments under way and in the receiver's queue
  cut,         \* history: the transfers whose sender gave up
  calls,       \* the number of sfp_recv calls made
  receiver,    \* "idle", "receiving", "ok", or the error returned
  expected,    \* the offset libcsp's receive loop expects next
  buf,         \* VecCtx.buf
  received     \* the last `received' given to the progress callback, or 0

send == <<rdp, xfer, length, offset, sender, cut>>
recv == <<calls, receiver, expected, buf, received>>
sfpVars == <<send, net, recv>>

(* Byte number i of transfer x, and what Vec::resize fills in.             *)
Byte(x, i) == <<x, i>>
Zero == <<0, 0>>

(* data.len() as u32, for the context and for libcsp.                      *)
Announced(x) == length[x] % Wrap
Total == Announced(xfer)

Fragments == [xfer : 1..Transfers, offset : Nat, size : Nat, total : Nat]
Errors == {"NoMemory", "InvalidArgument", "TimedOut", "SfpError", "Aborted"}

SfpTypeOK ==
  /\ rdp \in BOOLEAN
  /\ xfer \in 0..Transfers
  /\ length \in [1..Transfers -> Nat]
  /\ offset \in Nat
  /\ sender \in {"idle", "sending", "ok"} \cup Errors
  /\ net \in Seq(Fragments)
  /\ cut \subseteq 1..Transfers
  /\ calls \in 0..Receives
  /\ receiver \in {"idle", "receiving", "ok"} \cup Errors
  /\ expected \in Nat
  /\ buf \in Seq(Nat \X Nat)
  /\ received \in 0..Len(buf)

SfpInit ==
  /\ rdp \in BOOLEAN
  /\ xfer = 0 /\ length = [x \in 1..Transfers |-> 0]
  /\ offset = 0 /\ sender = "idle" /\ cut = {}
  /\ net = <<>>
  /\ calls = 0 /\ receiver = "idle" /\ expected = 0 /\ buf = <<>> /\ received = 0

-----------------------------------------------------------------------------
(* sfp_send is called for the next blob; of one that is empty, or whose    *)
(* length is cut to 0, libcsp sends nothing.                               *)
SfpSend(n) ==
  /\ sender # "sending" /\ xfer < Transfers
  /\ xfer' = xfer + 1
  /\ length' = [length EXCEPT ![xfer + 1] = n]
  /\ offset' = 0
  /\ sender' = IF n % Wrap = 0 THEN "ok" ELSE "sending"
  /\ UNCHANGED <<rdp, net, cut, recv>>

(* The fragment libcsp asks for next.                                      *)
NextSize == IF Total - offset < Mtu THEN Total - offset ELSE Mtu

(* offset.saturating_add(size)                                             *)
End == IF offset + NextSize < Wrap THEN offset + NextSize ELSE Wrap - 1

(* Mutant: the progress callback's answer is ignored on the last fragment. *)
ReadCb_LastAlwaysGoes ==
  /\ sender = "sending" /\ End <= Total
  /\ \E go \in BOOLEAN :
       IF go \/ End = Total
         THEN /\ net' = Append(net, [xfer |-> xfer, offset |-> offset,
                                     size |-> NextSize, total |-> Total])
              /\ offset' = End
              /\ sender' = IF go THEN IF End = Total THEN "ok" ELSE "sending" ELSE "Aborted"
              /\ cut' = IF go THEN cut ELSE cut \cup {xfer}
         ELSE /\ sender' = "Aborted"
              /\ cut' = cut \cup {xfer}
              /\ UNCHANGED <<net, offset>>
  /\ UNCHANGED <<rdp, xfer, length, recv>>

(* read_cb copies the bytes out and asks the progress callback: on true    *)
(* libcsp sends the fragment, on false it stops before sending it and      *)
(* returns the callback's code, as it does when it has no buffer.  (A      *)
(* range past the slice would be refused, but libcsp asks for none.)       *)
ReadCb ==
  /\ sender = "sending"
  /\ \/ /\ End <= Total
        /\ net' = Append(net, [xfer |-> xfer, offset |-> offset,
                               size |-> NextSize, total |-> Total])
        /\ offset' = End
        /\ sender' = IF End = Total THEN "ok" ELSE "sending"
        /\ UNCHANGED cut
     \/ /\ \E code \in {CSP_ERR_ABORTED, CSP_ERR_NOMEM} :
             sender' = FromCode(code).variant
        /\ cut' = cut \cup {xfer}
        /\ UNCHANGED <<net, offset>>
  /\ UNCHANGED <<rdp, xfer, length, recv>>

-----------------------------------------------------------------------------
(* A connection without RDP.                                               *)
Network ==
  /\ ~rdp
  /\ UNCHANGED <<send, recv>>
  /\ \E k \in 1..Len(net) :
       \/ net' = RemoveAt(net, k)
       \/ net' = InsertAt(net, k, net[k])
       \/ k < Len(net) /\ net' = [net EXCEPT ![k] = net[k + 1], ![k + 1] = net[k]]

-----------------------------------------------------------------------------
(* sfp_recv is called.                                                     *)
SfpRecv ==
  /\ receiver # "receiving" /\ calls < Receives
  /\ calls' = calls + 1
  /\ receiver' = "receiving"
  /\ expected' = 0 /\ buf' = <<>> /\ received' = 0
  /\ UNCHANGED <<send, net>>

(* libcsp's receive loop takes the next fragment for in order.             *)
Accepts(f) == f.offset = expected /\ (buf # <<>> => f.total = Len(buf))

(* The buffer after write_cb has sized it on its first call ...            *)
Sized(f) == IF buf = <<>> THEN [i \in 1..f.total |-> Zero] ELSE buf

(* Mutant: fragments are always copied to the front.                       *)
Copied_AtFront(f) ==
  [i \in 1..Len(Sized(f)) |-> IF i <= f.size THEN Byte(f.xfer, f.offset + i) ELSE Sized(f)[i]]

(* ... and has copied the fragment in at its offset.                       *)
Copied(f) ==
  [i \in 1..Len(Sized(f)) |->
     IF i \in (f.offset + 1)..(f.offset + f.size) THEN Byte(f.xfer, i) ELSE Sized(f)[i]]

(* The fragment ends within the buffer.                                    *)
Fits(f) == f.offset + f.size <= Len(Sized(f))

(* write_cb takes a fragment and asks the progress callback, which may     *)
(* abort; the last fragment ends the call.                                 *)
WriteCb(f) ==
  /\ receiver = "receiving" /\ net # <<>> /\ f = Head(net)
  /\ Accepts(f) /\ Fits(f)
  /\ buf' = Copied(f)
  /\ received' = f.offset + f.size
  /\ \/ /\ expected' = f.offset + f.size
        /\ receiver' = IF f.offset + f.size = f.total THEN "ok" ELSE "receiving"
     \/ receiver' = FromCode(CSP_ERR_ABORTED).variant /\ UNCHANGED expected
  /\ net' = Tail(net)
  /\ UNCHANGED <<send, calls>>

(* A fragment out of order, which libcsp refuses, or one that write_cb     *)
(* finds too long ends the call with an error.                             *)
RecvRefuses ==
  /\ receiver = "receiving" /\ net # <<>>
  /\ ~(Accepts(Head(net)) /\ Fits(Head(net)))
  /\ receiver' = FromCode(IF Accepts(Head(net)) THEN CSP_ERR_INVAL
                          ELSE CSP_ERR_SFP).variant
  /\ net' = Tail(net)
  /\ UNCHANGED <<send, calls, expected, buf, received>>

(* No fragment within the timeout.                                         *)
RecvTimesOut ==
  /\ receiver = "receiving" /\ net = <<>>
  /\ receiver' = FromCode(CSP_ERR_TIMEDOUT).variant
  /\ UNCHANGED <<send, net, calls, expected, buf, received>>

SfpNext ==
  \/ \E n \in Lengths : SfpSend(n)
  \/ ReadCb
  \/ Network
  \/ SfpRecv
  \/ \E f \in ToSet(net) : WriteCb(f)
  \/ RecvRefuses
  \/ RecvTimesOut

SfpSpec == SfpInit /\ [][SfpNext]_sfpVars

-----------------------------------------------------------------------------
(***************************************************************************)
(* Properties                                                              *)
(***************************************************************************)

(* When sfp_recv returns Ok, the transfer its last byte came from is one   *)
(* whose sender did not give up, the Vec has that blob's full length if    *)
(* that is below 2^32, and every byte is a blob's byte in its place, with  *)
(* no filler.  Over RDP all of them are of that one blob, whatever was cut *)
(* short before or left in the queue; on a plain connection bytes of other *)
(* transfers of the same length may be among them.                         *)
BlobIntact ==
  receiver = "ok" =>
    \E x \in (1..xfer) \ cut :
      /\ buf # <<>> /\ Last(buf) = Byte(x, Len(buf))
      /\ length[x] < Wrap => Len(buf) = length[x]
      /\ \A i \in 1..Len(buf) : \E y \in 1..xfer : buf[i] = Byte(y, i)
      /\ rdp => \A i \in 1..Len(buf) : buf[i] = Byte(x, i)

(* The prefix shown to the progress callback is made of received bytes,    *)
(* each in its place.                                                      *)
PrefixIsReal == \A i \in 1..received : buf[i] # Zero /\ buf[i][2] = i
=============================================================================
