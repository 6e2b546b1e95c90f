------------------------ MODULE PeerRequestTracker ------------------------
(***************************************************************************)
(* PeerRequestTracker (vanetza/security/peer_request_tracker.cpp): pending *)
(* certificate requests, oldest first, each once.  The queue m_fifo is the *)
(* sequence; m_lookup, which maps an id to its place in it, is the set of  *)
(* its elements.                                                           *)
(***************************************************************************)
EXTENDS Naturals, Sequences, Selection

CONSTANT RequestLimit \* m_limit

ASSUME RequestLimitAssumption == RequestLimit \in Nat \ {0}

Pending(fifo) == {fifo[i] : i \in DOMAIN fifo}

is_pending(fifo, id) == id \in Pending(fifo)

\* Deviation: an id that is pending already is queued again.
add_request_Twice(fifo, id) ==
  IF Len(fifo) >= RequestLimit THEN Append(Tail(fifo), id) ELSE Append(fifo, id)

\* A full queue drops its oldest request.
add_request(fifo, id) ==
  IF is_pending(fifo, id) THEN fifo
  ELSE IF Len(fifo) >= RequestLimit THEN Append(Tail(fifo), id)
  ELSE Append(fifo, id)

discard_request(fifo, id) == Selected(fifo, {i \in DOMAIN fifo : fifo[i] # id})

\* Where next_one(), called until an id of wanted comes out, stops: past the
\* end when there is none.  All up to there are taken out.
next_wanted(fifo, wanted) ==
  CHOOSE i \in 1 .. Len(fifo) + 1 :
    /\ i <= Len(fifo) => fifo[i] \in wanted
    /\ \A j \in 1 .. i - 1 : fifo[j] \notin wanted
=============================================================================
