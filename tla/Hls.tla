--------------------------------- MODULE Hls ---------------------------------
(***************************************************************************)
(* HLS: the publisher's thread cuts its stream into fragments (HLSMuxer,   *)
(* Fragment) and puts them into a window (FragmentWindow), from which HTTP *)
(* threads fetch the play list and the fragments (LiveService::OnRequest). *)
(*                                                                         *)
(* AppendFragment takes the window's lock three times, and the HTTP        *)
(* threads run in between.  A fragment is known by its sequence number,    *)
(* which stands for its file name as well: the name is the time at which   *)
(* the fragment was begun, and fragments are begun in different            *)
(* milliseconds.  The content of a fragment is left out.                   *)
(***************************************************************************)
EXTENDS Integers, Sequences, SequencesExt

CONSTANTS
  Window,      (* window_size_                                               *)
  Listed,      (* fragments that a play list names: 5                        *)
  FirstListed, (* fragments before there is a play list: 3                   *)
  MinSize, MaxSize, (* min_fragment_size_, max_fragment_size_                  *)
  Forward, Back, (* steps from one timestamp to the next, and back           *)
  Clients,     (* HTTP connections                                           *)
  None,        (* no fragment, no packet                                     *)
  MaxFrags     (* bound on fragment_seq_no_                                  *)

ASSUME HlsAssumption ==
  /\ Window \in Nat \ {0} /\ Listed \in Nat \ {0} /\ FirstListed \in Nat \ {0}
  /\ MinSize \in Nat \ {0} /\ MaxSize \in Nat /\ MinSize <= MaxSize
  /\ Forward \subseteq Nat /\ Back \subseteq Nat
  /\ MaxFrags \in Nat

Deltas == Forward \cup {-b : b \in Back}

(* The timestamp of a codec header, of meta data and of a packet that      *)
(* cannot be demuxed is not used.                                          *)
Packets == [key : BOOLEAN, delta : Deltas, timed : {TRUE}]
             \cup [key : BOOLEAN, delta : {0}, timed : {FALSE}]

(* A fragment: its number, its duration (-1: it has no timestamp yet), and *)
(* whether it begins with a key frame.                                     *)
Fragment == [no : 0 .. MaxFrags, dur : Nat \cup {-1}, key : BOOLEAN]

(* A place in the vector of fragments.                                     *)
Reference == [no : 0 .. MaxFrags, at : Nat, capacity : Nat]

ASSUME NoneAssumption == None \notin Fragment \cup Packets \cup Reference \cup Nat

VARIABLES
  current,     (* current_fragment_                                          *)
  seqNo,       (* fragment_seq_no_                                           *)
  fragments,   (* fragments_                                                 *)
  capacity,    (* of the vector: a larger one is a new block of memory       *)
  playlist,    (* the numbers in playlist_                                   *)
  packet,      (* the packet that OnPacket was called with                   *)
  pc,          (* where OnPacket is                                          *)
  view,        (* client -> the play list it fetched last                    *)
  ref,         (* client -> the reference that GetFragmentByName returned    *)
  got          (* client -> the fragment it was sent last                    *)

muxVars == <<current, seqNo, fragments, capacity, playlist, packet, pc>>
clientVars == <<view, ref, got>>
vars == <<muxVars, clientVars>>

Init ==
  /\ current = None /\ seqNo = 0 /\ fragments = << >> /\ capacity = 0
  /\ playlist = << >> /\ packet = None /\ pc = "packet"
  /\ view = [c \in Clients |-> << >>]
  /\ ref = [c \in Clients |-> None]
  /\ got = [c \in Clients |-> None]

-----------------------------------------------------------------------------
(* The publisher's thread.                                                  *)

(* A fragment ends at a key frame, or when it is too long. *)
IsFullAtAnyFrame(p) == current # None /\ current.dur >= MinSize

IsFull(p) ==
  /\ current # None
  /\ (p.key /\ current.dur >= MinSize) \/ current.dur > MaxSize

(* OnPacket up to the first part of AppendFragment: the vector grows by    *)
(* doubling.                                                               *)
Append1(p) ==
  /\ pc = "packet"
  /\ IsFull(p)
  /\ packet' = p
  /\ fragments' = Append(fragments, current)
  /\ capacity' = IF Len(fragments) = capacity
                 THEN (IF capacity = 0 THEN 1 ELSE 2 * capacity) ELSE capacity
  /\ current' = None
  /\ pc' = "shrink"
  /\ UNCHANGED <<seqNo, playlist, clientVars>>

(* Shrink returns if the window is too large, and finds nothing to remove  *)
(* otherwise.                                                              *)
ShrinkAlways == IF Len(fragments) <= Listed THEN fragments ELSE Tail(fragments)

ShrinkNewest == IF Len(fragments) > Window THEN Front(fragments) ELSE fragments

Shrunk ==
  IF Len(fragments) > Window THEN fragments
  ELSE LET n == Len(fragments) - Window
       IN  SubSeq(fragments, (IF n > 0 THEN n ELSE 0) + 1, Len(fragments))

Shrink ==
  /\ pc = "shrink"
  /\ fragments' = Shrunk
  /\ pc' = "update"
  /\ UNCHANGED <<current, seqNo, capacity, playlist, packet, clientVars>>

(* The play list names the last fragments. *)
FirstOfList == IF Len(fragments) > Listed THEN Len(fragments) - Listed + 1 ELSE 1

UpdatePlayList ==
  /\ pc = "update"
  /\ playlist' = IF Len(fragments) < FirstListed THEN playlist
                 ELSE [i \in 1 .. Len(fragments) - FirstOfList + 1 |->
                         fragments[FirstOfList + i - 1].no]
  /\ pc' = "write"
  /\ UNCHANGED <<current, seqNo, fragments, capacity, packet, clientVars>>

(* AppendTimeStamp: the earliest timestamp starts the fragment (-1: there  *)
(* is none yet).                                                           *)
WriteTo(f, p) ==
  IF ~p.timed THEN f
  ELSE [f EXCEPT !.dur = IF @ = -1 \/ @ + p.delta < 0 THEN 0 ELSE @ + p.delta]

(* The rest of OnPacket, for p: a new fragment if there is none, and p is  *)
(* written to it.  Nothing is ever put back into free_fragments_.          *)
NewFragment(p) == [no |-> seqNo, dur |-> -1, key |-> p.key]

Write(p) ==
  /\ IF current = None
     THEN /\ current' = WriteTo(NewFragment(p), p)
          /\ seqNo' = seqNo + 1
     ELSE current' = WriteTo(current, p) /\ UNCHANGED seqNo
  /\ packet' = None
  /\ pc' = "packet"
  /\ UNCHANGED <<fragments, capacity, playlist, clientVars>>

WriteOnly(p) ==
  /\ pc = "packet"
  /\ ~IsFull(p)
  /\ Write(p)

WriteNext ==
  /\ pc = "write"
  /\ Write(packet)

OnPacket ==
  \/ \E p \in Packets : seqNo < MaxFrags /\ (Append1(p) \/ WriteOnly(p))
  \/ Shrink \/ UpdatePlayList \/ WriteNext

-----------------------------------------------------------------------------
(* The HTTP threads: OnRequest.                                             *)

GetPlayList(c) ==
  /\ ref[c] = None /\ playlist # << >>
  /\ view' = [view EXCEPT ![c] = playlist]
  /\ UNCHANGED <<muxVars, ref, got>>

(* A reference to an element of the vector is returned, and used when the  *)
(* lock is no longer held.                                                 *)
GetFragmentByName(c, no) ==
  /\ ref[c] = None
  /\ no \in {view[c][i] : i \in 1 .. Len(view[c])}
  /\ \E i \in 1 .. Len(fragments) :
       /\ fragments[i].no = no
       /\ ref' = [ref EXCEPT ![c] = [no |-> no, at |-> i, capacity |-> capacity]]
  /\ UNCHANGED <<muxVars, view, got>>

(* The pointer is copied, and the fragment is sent. *)
PostFragment(c) ==
  /\ ref[c] # None
  /\ got' = [got EXCEPT ![c] = [no |-> ref[c].no,
               sent |-> IF ref[c].capacity = capacity THEN fragments[ref[c].at].no ELSE None]]
  /\ ref' = [ref EXCEPT ![c] = None]
  /\ UNCHANGED <<muxVars, view>>

Next ==
  \/ OnPacket
  \/ \E c \in Clients :
       \/ GetPlayList(c) \/ PostFragment(c)
       \/ \E no \in 0 .. MaxFrags : GetFragmentByName(c, no)

Spec == Init /\ [][Next]_vars

-----------------------------------------------------------------------------
(* Properties                                                               *)

(* The type of the muxer, the window and the clients. *)
TypeOK ==
  /\ current \in Fragment \cup {None} /\ fragments \in Seq(Fragment)
  /\ playlist \in Seq(0 .. MaxFrags) /\ seqNo \in 0 .. MaxFrags
  /\ packet \in Packets \cup {None} /\ pc \in {"packet", "shrink", "update", "write"}
  /\ capacity \in Nat /\ capacity >= Len(fragments)
  /\ view \in [Clients -> Seq(0 .. MaxFrags)]
  /\ ref \in [Clients -> Reference \cup {None}]
  /\ got \in [Clients -> [no : 0 .. MaxFrags, sent : 0 .. MaxFrags \cup {None}] \cup {None}]

(***************************************************************************)
(* A fragment can be played by itself: it begins with a key frame or with  *)
(* a codec header, unless it is the first one or follows one that had to   *)
(* be cut because it was too long.                                         *)
(***************************************************************************)
StartsAtKeyFrame ==
  \A i \in 2 .. Len(fragments) : fragments[i].key \/ fragments[i - 1].dur > MaxSize

(***************************************************************************)
(* What a play list names can be fetched, by every client that has fetched *)
(* that list, at any time until the stream ends, and it is the whole       *)
(* fragment: none that is listed is written to any more.                   *)
(***************************************************************************)
ListedCanBeFetched ==
  \A c \in Clients : \A i \in 1 .. Len(view[c]) :
    /\ \E j \in 1 .. Len(fragments) : fragments[j].no = view[c][i]
    /\ current # None => current.no # view[c][i]

(* A play list that exists names at least FirstListed and at most Listed   *)
(* fragments, with consecutive numbers, of which the last is one of the    *)
(* two newest.                                                             *)
PlayListInOrder ==
  playlist # << >> =>
    /\ Len(playlist) >= FirstListed \/ Len(playlist) = Listed
    /\ Len(playlist) <= Listed
    /\ \A i \in 2 .. Len(playlist) : playlist[i] = playlist[i - 1] + 1
    /\ Last(playlist) >= Last(fragments).no - 1

(***************************************************************************)
(* A player that reloads the list never sees it go back, and every         *)
(* fragment that is appended makes it go on, so the player is not stuck    *)
(* while the stream is published.                                          *)
(***************************************************************************)
ListMovesForward ==
  [][playlist # << >> =>
       /\ playlist'[1] >= playlist[1] /\ Last(playlist') >= Last(playlist)
       /\ pc = "update" /\ pc' = "write" => Last(playlist') > Last(playlist)]_vars

(***************************************************************************)
(* A client is never sent another fragment than the one it asked for.  It  *)
(* is sent that one, or whatever is in the memory that the vector of       *)
(* fragments had when GetFragmentByName returned a reference into it and   *)
(* has left since (None): the lock protects the search and not the use.    *)
(***************************************************************************)
NeverSentAnother ==
  \A c \in Clients : got[c] # None => got[c].sent \in {got[c].no, None}

(***************************************************************************)
(* At every moment of AppendFragment's three sections, the play list is    *)
(* well formed, and what it names, then or before, is what is sent.        *)
(***************************************************************************)
ServesWhatItLists == TypeOK /\ PlayListInOrder /\ ListedCanBeFetched /\ NeverSentAnother

=============================================================================
