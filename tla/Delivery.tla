------------------------------- MODULE Delivery -------------------------------
(***************************************************************************)
(* What publish/subscribe promises a connection, whatever the maps, queues *)
(* and sockets that keep it: frames reach it in the order in which they    *)
(* were made, each message published once for every subscription of its    *)
(* own that matches, none left out; what waits for it stays within         *)
(* maxPendingBytes once it has been a subscriber, and the only way out of  *)
(* that bound is to be cut off, which concerns nobody else; after QUIT it  *)
(* still gets what was waiting, and nothing new.                           *)
(***************************************************************************)
EXTENDS Integers, SequencesExt

CONSTANTS
    Clients,
    Channels,
    Patterns,
    Matching,         \* pattern -> the channels it matches
    Bodies, Sizes,    \* of the messages published
    maxPendingBytes

VARIABLES
    link,      \* client -> "open", "quitting" or "gone"
    subs,      \* client -> the channels and patterns it is subscribed to
    pending,   \* client -> the frames it has not taken yet
    bounded    \* the open connections that have been subscribers

vars == <<link, subs, pending, bounded>>

Bytes(frames) ==
    LET total[n \in 0..Len(frames)] == IF n = 0 THEN 0 ELSE total[n - 1] + frames[n].size
    IN  total[Len(frames)]

Init ==
    /\ link = [c \in Clients |-> "open"]
    /\ subs = [c \in Clients |-> {}]
    /\ pending = [c \in Clients |-> <<>>]
    /\ bounded = {}

StillOpen(S) == {c \in S : link'[c] = "open"}

\* The frames go to the end of what waits for c.
Appended(c, frames) ==
    /\ c \in bounded' => Bytes(pending[c] \o frames) <= maxPendingBytes
    /\ pending'[c] = pending[c] \o frames
    /\ link'[c] = link[c]

\* Too much would wait: the client is cut off, with what waits.
CutOff(c, bytes) ==
    /\ Bytes(pending[c]) + bytes > maxPendingBytes
    /\ pending'[c] = <<>>
    /\ link'[c] = "gone"

Untouched(S) == \A c \in S : pending'[c] = pending[c] /\ link'[c] = link[c] /\ subs'[c] = subs[c]

\* The frames that c is due when a message of this body and size is published to a channel.
Due(c, channel, body, size) ==
    {[kind |-> "message", name |-> n, body |-> body, size |-> size] : n \in subs[c] \cap {channel}}
        \cup {[kind |-> "pmessage", name |-> n, body |-> body, size |-> size] :
                  n \in {p \in subs[c] \cap Patterns : channel \in Matching[p]}}

Publish(channel, body, size) ==
    /\ \A c \in Clients :
         LET due == Due(c, channel, body, size)
         IN  /\ \/ \E frames \in SetToSeqs(due) : Appended(c, frames)
                \/ due # {} /\ CutOff(c, size * Cardinality(due))
             /\ subs'[c] = IF link'[c] = "open" THEN subs[c] ELSE {}
    /\ bounded' = StillOpen(bounded)

\* The client's subscriptions change, and it is told their number, name by name.
Resubscribe(c) ==
    /\ link[c] = "open"
    /\ bounded' = StillOpen(bounded \cup {c})
    /\ \/ /\ \E n \in 1..Len(pending'[c]) :
               LET acks == SubSeq(pending'[c], n, Len(pending'[c]))
               IN  /\ Appended(c, acks)
                   /\ Last(acks).kind \in {"subscribe", "unsubscribe", "psubscribe", "punsubscribe"}
                   /\ Last(acks).body = Cardinality(subs'[c])
       \/ /\ \E bytes \in 1..(maxPendingBytes + 1) : CutOff(c, bytes)
          /\ subs'[c] = {}
    /\ Untouched(Clients \ {c})

\* The answer to another command; subscriptions stay.
Answer(c) ==
    /\ link[c] = "open"
    /\ \/ \E kind \in {"reply", "pong"} :
            /\ Appended(c, <<[kind |-> kind, name |-> "", body |-> 0, size |-> 1]>>)
            /\ subs'[c] = subs[c]
       \/ CutOff(c, 1) /\ c \in bounded /\ subs'[c] = {}
    /\ Untouched(Clients \ {c})
    /\ bounded' = StillOpen(bounded)

\* QUIT: the OK is the last frame of all.
Quit(c) ==
    /\ link[c] = "open"
    /\ \/ /\ c \in bounded => Bytes(pending[c]) < maxPendingBytes
          /\ pending'[c] = Append(pending[c], [kind |-> "OK", name |-> "", body |-> 0, size |-> 1])
          /\ link'[c] = "quitting"
       \/ CutOff(c, 1) /\ c \in bounded
    /\ subs'[c] = {}
    /\ Untouched(Clients \ {c})
    /\ bounded' = StillOpen(bounded)

\* The client takes the next frame.
Take(c) ==
    /\ pending[c] # <<>>
    /\ pending' = [pending EXCEPT ![c] = Tail(@)]
    /\ UNCHANGED <<link, subs, bounded>>

\* The connection is lost, or over.
Leave(c) ==
    /\ link[c] # "gone"
    /\ link' = [link EXCEPT ![c] = "gone"]
    /\ subs' = [subs EXCEPT ![c] = {}]
    /\ pending' = [pending EXCEPT ![c] = <<>>]
    /\ bounded' = StillOpen(bounded)

Next ==
    \/ \E channel \in Channels, body \in Bodies, size \in Sizes : Publish(channel, body, size)
    \/ \E c \in Clients : Resubscribe(c) \/ Answer(c) \/ Quit(c) \/ Take(c) \/ Leave(c)

Spec == Init /\ [][Next]_vars
=============================================================================
