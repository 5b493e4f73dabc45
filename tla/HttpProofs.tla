------------------------------ MODULE HttpProofs -----------------------------
(***************************************************************************)
(* HLS, for any sizes of the window, the play list and the fragments, and  *)
(* any number of clients: the play list is in order and moves forward,     *)
(* what it names can be fetched, and a fragment begins where a player can  *)
(* begin.                                                                  *)
(*                                                                         *)
(* HTTP, for any number of requests and tags: however the bytes are cut    *)
(* and the writes are taken, requests and answers stay whole, and the two  *)
(* loops that may never end do so only where it is said.                   *)
(***************************************************************************)
EXTENDS Hls, Http, SequenceTheorems, WellFoundedInduction, TLAPS

(* AppendFragment has put a fragment into the window, and the packet that  *)
(* ended it is still to be written.                                        *)
Appending == pc \in {"shrink", "update", "write"}

(* Fragments are numbered from 0 without a gap, the current one is the     *)
(* next, and fragment_seq_no_ counts them all.                             *)
Numbered ==
  /\ \A i \in 1 .. Len(fragments) : fragments[i].no = i - 1
  /\ current # None => current.no = Len(fragments) /\ seqNo = Len(fragments) + 1
  /\ current = None => seqNo = Len(fragments)

(* While a fragment is appended there is no current one, and the packet is *)
(* kept; only before the first packet is there none otherwise.             *)
PacketKept ==
  /\ Appending => current = None /\ packet \in Packets /\ seqNo < MaxFrags /\ fragments # << >>
  /\ ~Appending /\ current = None => fragments = << >>

(* The fragments that UpdatePlayList has seen.                             *)
Published == IF pc \in {"shrink", "update"} THEN Len(fragments) - 1 ELSE Len(fragments)

(* The play list names the last Listed of them.                            *)
Named == IF Published > Listed THEN Listed ELSE Published

ListIsTheLast ==
  IF Published < FirstListed THEN playlist = << >>
  ELSE /\ Len(playlist) = Named
       /\ \A i \in 1 .. Named : playlist[i] = Published - Named + i - 1

(* What clients have seen was published, and what they refer to is there.  *)
SeenIsPublished ==
  \A c \in Clients : \A i \in 1 .. Len(view[c]) : view[c][i] < Published

RefsAreInWindow ==
  \A c \in Clients : ref[c] # None =>
    ref[c].at \in 1 .. Len(fragments) /\ ref[c].no = ref[c].at - 1

(* The fragment that is or will be current begins with a key frame, or the *)
(* one before it was too long.                                             *)
NextStartsAtKeyFrame ==
  fragments # << >> =>
    \/ fragments[Len(fragments)].dur > MaxSize
    \/ Appending /\ packet.key
    \/ ~Appending /\ current.key

IInv ==
  /\ TypeOK /\ Numbered /\ PacketKept /\ ListIsTheLast
  /\ SeenIsPublished /\ RefsAreInWindow /\ NeverSentAnother
  /\ StartsAtKeyFrame /\ NextStartsAtKeyFrame

-----------------------------------------------------------------------------
(* The initial states satisfy the inductive invariant. *)
LEMMA InitIInv == Init => IInv
<1> SUFFICES ASSUME Init PROVE IInv
  OBVIOUS
<1>1. TypeOK
  BY HlsAssumption DEF Init, TypeOK
<1> QED
  BY <1>1, HlsAssumption
     DEF Init, IInv, Numbered, PacketKept, Appending, ListIsTheLast, Published,
         SeenIsPublished, RefsAreInWindow, NeverSentAnother, StartsAtKeyFrame,
         NextStartsAtKeyFrame

(* What is in a sequence over S is in S. *)
LEMMA ElementIn ==
  ASSUME NEW S, NEW s \in Seq(S), NEW i \in 1 .. Len(s)
  PROVE  s[i] \in S
OBVIOUS

(* Shrink removes nothing, whatever the size of the window. *)
LEMMA NothingShrinks == TypeOK => Shrunk = fragments
<1> SUFFICES ASSUME TypeOK PROVE Shrunk = fragments
  OBVIOUS
<1>1. fragments \in Seq(Fragment) /\ Len(fragments) \in Nat
  BY DEF TypeOK
<1>2. CASE Len(fragments) > Window
  BY <1>2 DEF Shrunk
<1>3. CASE Len(fragments) <= Window
  <2>1. ~(Len(fragments) > Window) /\ ~(Len(fragments) - Window > 0)
    BY <1>1, <1>3, HlsAssumption
  <2>2. 0 + 1 = 1
    OBVIOUS
  <2>3. Shrunk = SubSeq(fragments, 1, Len(fragments))
    BY <2>1, <2>2, Zenon DEF Shrunk
  <2> QED
    BY <1>1, <2>3
<1> QED
  BY <1>1, <1>2, <1>3, HlsAssumption

(* A packet that is written gives a fragment of the same number and start. *)
LEMMA WriteToKeeps ==
  ASSUME NEW f \in Fragment, NEW p \in Packets
  PROVE  WriteTo(f, p) \in Fragment /\ WriteTo(f, p).no = f.no /\ WriteTo(f, p).key = f.key
<1>1. CASE ~p.timed
  BY <1>1 DEF WriteTo, Fragment
<1>2. CASE p.timed
  <2>1. p.delta \in Int
    <3>1. \A d \in Deltas : d \in Int
      BY HlsAssumption DEF Deltas
    <3>2. p.delta \in Deltas \/ p.delta = 0
      BY DEF Packets
    <3> QED
      BY <3>1, <3>2
  <2>2. WriteTo(f, p) =
          [f EXCEPT !.dur = IF @ = -1 \/ @ + p.delta < 0 THEN 0 ELSE @ + p.delta]
    BY <1>2 DEF WriteTo
  <2> QED
    BY <2>1, <2>2 DEF Fragment
<1> QED
  BY <1>1, <1>2

(* How many fragments there are, are published, and are named. *)
LEMMA Counts ==
  ASSUME IInv
  PROVE  /\ fragments \in Seq(Fragment) /\ Len(fragments) \in Nat
         /\ Published \in Nat /\ Published <= Len(fragments) /\ Len(fragments) <= Published + 1
         /\ pc \in {"packet", "write"} => Published = Len(fragments)
         /\ Named \in Nat /\ Named <= Published /\ Named <= Listed
         /\ Listed \in Nat \ {0} /\ FirstListed \in Nat \ {0}
         /\ \A c \in Clients : \A i \in 1 .. Len(view[c]) :
              view[c][i] \in Nat /\ view[c][i] < Published
<1>1. fragments \in Seq(Fragment) /\ Len(fragments) \in Nat /\ pc \in {"packet", "shrink", "update", "write"}
  BY DEF IInv, TypeOK
<1>2. pc \in {"shrink", "update"} => Len(fragments) >= 1
  BY <1>1 DEF IInv, PacketKept, Appending
<1>3. /\ Published \in Nat /\ Published <= Len(fragments) /\ Len(fragments) <= Published + 1
      /\ pc \in {"packet", "write"} => Published = Len(fragments)
  BY <1>1, <1>2 DEF Published
<1>4. /\ Named \in Nat /\ Named <= Published /\ Named <= Listed
      /\ Listed \in Nat \ {0} /\ FirstListed \in Nat \ {0}
  BY <1>3, HlsAssumption DEF Named
<1>5. ASSUME NEW c \in Clients, NEW i \in 1 .. Len(view[c])
      PROVE  view[c][i] \in Nat /\ view[c][i] < Published
  <2>1. view[c] \in Seq(0 .. MaxFrags)
    BY DEF IInv, TypeOK
  <2>2. view[c][i] \in 0 .. MaxFrags
    BY <2>1, ElementIn
  <2> QED
    BY <2>2, HlsAssumption DEF IInv, SeenIsPublished
<1> QED
  BY <1>1, <1>3, <1>4, <1>5

(* A play list that is not empty. *)
LEMMA Listing ==
  ASSUME IInv, playlist # << >>
  PROVE  /\ Published >= FirstListed /\ Len(playlist) = Named /\ Named \in Nat \ {0}
         /\ Named = IF Published > Listed THEN Listed ELSE Published
         /\ \A i \in 1 .. Named : playlist[i] = Published - Named + i - 1
         /\ playlist[1] = Published - Named /\ playlist[Len(playlist)] = Published - 1
<1>1. /\ ~(Published < FirstListed) /\ Len(playlist) = Named
      /\ \A i \in 1 .. Named : playlist[i] = Published - Named + i - 1
  BY DEF IInv, ListIsTheLast
<1>2. Named = IF Published > Listed THEN Listed ELSE Published
  BY DEF Named
<1>3. Published >= FirstListed /\ Named \in Nat \ {0}
  BY <1>1, <1>2, Counts
<1>4. playlist[1] = Published - Named /\ playlist[Len(playlist)] = Published - 1
  BY <1>1, <1>3, Counts
<1> QED
  BY <1>1, <1>2, <1>3, <1>4

(* Append1 keeps the invariant. *)
LEMMA Append1Keeps ==
  ASSUME IInv, NEW p \in Packets, seqNo < MaxFrags, Append1(p)
  PROVE  IInv'
<1>1. /\ pc = "packet" /\ pc' = "shrink" /\ IsFull(p) /\ packet' = p
      /\ fragments' = Append(fragments, current) /\ current' = None
      /\ UNCHANGED <<seqNo, playlist, view, ref, got>>
  BY DEF Append1, clientVars
<1>2. /\ current \in Fragment /\ current.no = Len(fragments) /\ fragments \in Seq(Fragment)
      /\ seqNo = Len(fragments) + 1 /\ Len(fragments) \in Nat
  BY <1>1 DEF IInv, TypeOK, Numbered, IsFull
<1>3. /\ Len(fragments') = Len(fragments) + 1 /\ fragments' \in Seq(Fragment)
      /\ fragments'[Len(fragments')] = current
      /\ \A i \in 1 .. Len(fragments) : fragments'[i] = fragments[i]
  BY <1>1, <1>2
<1>4. TypeOK'
  <2>1. capacity' \in Nat /\ capacity' >= Len(fragments')
    BY <1>3 DEF IInv, TypeOK, Append1
  <2> QED
    BY <1>1, <1>3, <2>1 DEF IInv, TypeOK
<1>5. Numbered'
  BY <1>1, <1>2, <1>3 DEF IInv, Numbered
<1>6. PacketKept'
  BY <1>1, <1>2, <1>3 DEF PacketKept, Appending
<1>7. Published' = Published
  BY <1>1, <1>2, <1>3 DEF Published
<1>8. ListIsTheLast' /\ SeenIsPublished'
  BY <1>1, <1>7 DEF IInv, ListIsTheLast, SeenIsPublished, Named
<1>9. RefsAreInWindow' /\ NeverSentAnother'
  BY <1>1, <1>2, <1>3 DEF IInv, RefsAreInWindow, NeverSentAnother
<1>10. StartsAtKeyFrame'
  <2> SUFFICES ASSUME NEW i \in 2 .. Len(fragments')
               PROVE  fragments'[i].key \/ fragments'[i - 1].dur > MaxSize
    BY DEF StartsAtKeyFrame
  <2>1. CASE i = Len(fragments')
    BY <1>1, <1>2, <1>3, <2>1 DEF IInv, NextStartsAtKeyFrame, Appending
  <2>2. CASE i # Len(fragments')
    BY <1>2, <1>3, <2>2 DEF IInv, StartsAtKeyFrame
  <2> QED
    BY <2>1, <2>2
<1>11. NextStartsAtKeyFrame'
  BY <1>1, <1>3 DEF NextStartsAtKeyFrame, Appending, IsFull
<1> QED
  BY <1>4, <1>5, <1>6, <1>8, <1>9, <1>10, <1>11 DEF IInv

(* Shrink keeps the invariant. *)
LEMMA ShrinkKeeps == ASSUME IInv, Shrink PROVE IInv'
<1>1. /\ pc = "shrink" /\ pc' = "update"
      /\ UNCHANGED <<fragments, current, seqNo, capacity, playlist, packet, view, ref, got>>
  BY NothingShrinks DEF Shrink, clientVars, IInv
<1> QED
  BY <1>1 DEF IInv, TypeOK, Numbered, PacketKept, Appending, ListIsTheLast, Named, Published,
     SeenIsPublished, RefsAreInWindow, NeverSentAnother, StartsAtKeyFrame,
     NextStartsAtKeyFrame

(* UpdatePlayList makes the list name the last fragments that there are. *)
LEMMA UpdateMakesList ==
  ASSUME IInv, UpdatePlayList
  PROVE  playlist' \in Seq(0 .. MaxFrags) /\ ListIsTheLast'
<1>1. /\ pc = "update" /\ pc' = "write" /\ UNCHANGED fragments
      /\ playlist' = IF Len(fragments) < FirstListed THEN playlist
                     ELSE [i \in 1 .. Len(fragments) - FirstOfList + 1 |->
                             fragments[FirstOfList + i - 1].no]
  BY DEF UpdatePlayList
<1>2. /\ Len(fragments) \in Nat /\ fragments \in Seq(Fragment) /\ playlist \in Seq(0 .. MaxFrags)
      /\ Published = Len(fragments) - 1 /\ Published' = Len(fragments)
      /\ Listed \in Nat \ {0} /\ FirstListed \in Nat \ {0}
  BY <1>1, HlsAssumption DEF IInv, TypeOK, Published
<1>3. CASE Len(fragments) < FirstListed
  BY <1>1, <1>2, <1>3 DEF IInv, ListIsTheLast
<1>4. CASE Len(fragments) >= FirstListed
  <2>1. /\ Named' = Len(fragments) - FirstOfList + 1 /\ Named' \in Nat
        /\ FirstOfList \in 1 .. Len(fragments)
    BY <1>1, <1>2, <1>4 DEF Named, FirstOfList
  <2>2. playlist' = [i \in 1 .. Named' |-> fragments[FirstOfList + i - 1].no]
    BY <1>1, <1>2, <1>4, <2>1
  <2>3. ASSUME NEW i \in 1 .. Named'
        PROVE  /\ fragments[FirstOfList + i - 1].no = FirstOfList + i - 2
               /\ fragments[FirstOfList + i - 1].no \in 0 .. MaxFrags
    <3> DEFINE k == FirstOfList + i - 1
    <3>1. k \in 1 .. Len(fragments) /\ k - 1 = FirstOfList + i - 2
      BY <1>2, <2>1
    <3> HIDE DEF k
    <3>2. fragments[k].no = k - 1
      BY <3>1 DEF IInv, Numbered
    <3>3. fragments[k] \in Fragment
      BY <1>2, <3>1
    <3>4. fragments[k].no \in 0 .. MaxFrags
      BY <3>3 DEF Fragment
    <3> QED
      BY <3>1, <3>2, <3>4 DEF k
  <2>4. playlist' \in Seq(0 .. MaxFrags) /\ Len(playlist') = Named'
    <3> DEFINE n == Named'
               f(i) == fragments[FirstOfList + i - 1].no
    <3>1. n \in Nat /\ playlist' = [i \in 1 .. n |-> f(i)] /\ \A i \in 1 .. n : f(i) \in 0 .. MaxFrags
      BY <2>1, <2>2, <2>3
    <3> HIDE DEF n, f
    <3>2. playlist' \in [1 .. n -> 0 .. MaxFrags]
      BY <3>1
    <3>3. playlist' \in Seq(0 .. MaxFrags) /\ Len(playlist') = n
      BY <3>1, <3>2
    <3> QED
      BY <3>3 DEF n
  <2>5. ASSUME NEW i \in 1 .. Named'
        PROVE  playlist'[i] = Published' - Named' + i - 1
    <3>1. playlist'[i] = FirstOfList + i - 2
      BY <2>2, <2>3
    <3> QED
      BY <1>2, <2>1, <3>1
  <2> QED
    BY <1>2, <1>4, <2>4, <2>5 DEF ListIsTheLast
<1> QED
  BY <1>2, <1>3, <1>4

(* UpdatePlayList keeps the invariant. *)
LEMMA UpdateKeeps == ASSUME IInv, UpdatePlayList PROVE IInv'
<1>1. /\ pc = "update" /\ pc' = "write"
      /\ UNCHANGED <<fragments, current, seqNo, capacity, packet, view, ref, got>>
  BY DEF UpdatePlayList, clientVars
<1>2. Published' >= Published /\ Published \in Int /\ Published' \in Int
  BY <1>1 DEF IInv, TypeOK, Published
<1>3. SeenIsPublished'
  <2> SUFFICES ASSUME NEW c \in Clients, NEW i \in 1 .. Len(view[c])
               PROVE  view[c][i] < Published'
    BY <1>1 DEF SeenIsPublished
  <2>1. view[c][i] < Published /\ view[c][i] \in Int
    BY Counts
  <2> QED
    BY <1>2, <2>1
<1> QED
  BY <1>1, <1>3, UpdateMakesList DEF IInv, TypeOK, Numbered, PacketKept, Appending,
     RefsAreInWindow, NeverSentAnother, StartsAtKeyFrame, NextStartsAtKeyFrame

(* Write of the packet p keeps the invariant, when p begins a fragment only *)
(* where one may begin.                                                     *)
LEMMA WriteKeeps ==
  ASSUME IInv, NEW p \in Packets, Write(p), pc \in {"packet", "write"}, seqNo < MaxFrags,
         Appending => p = packet
  PROVE  IInv'
<1>1. /\ packet' = None /\ pc' = "packet"
      /\ UNCHANGED <<fragments, capacity, playlist, view, ref, got>>
  BY DEF Write, clientVars
<1>2. /\ fragments \in Seq(Fragment) /\ Len(fragments) \in Nat /\ seqNo \in 0 .. MaxFrags
      /\ current \in Fragment \cup {None} /\ MaxFrags \in Nat
  BY HlsAssumption DEF IInv, TypeOK
<1>3. /\ current' \in Fragment /\ current' # None
      /\ current'.no = Len(fragments)
      /\ seqNo' = Len(fragments) + 1 /\ seqNo' \in 0 .. MaxFrags
      /\ current'.key = IF current = None THEN p.key ELSE current.key
  <2>1. CASE current = None
    <3>1. NewFragment(p) \in Fragment
      BY <1>2 DEF NewFragment, Fragment, Packets
    <3>2. /\ current' = WriteTo(NewFragment(p), p) /\ seqNo' = seqNo + 1
          /\ seqNo = Len(fragments)
      BY <2>1 DEF Write, IInv, Numbered
    <3>3. NewFragment(p).no = seqNo /\ NewFragment(p).key = p.key
      BY DEF NewFragment
    <3> QED
      BY <1>2, <2>1, <3>1, <3>2, <3>3, WriteToKeeps, NoneAssumption
  <2>2. CASE current # None
    BY <1>2, <2>2, WriteToKeeps, NoneAssumption DEF Write, IInv, Numbered
  <2> QED
    BY <2>1, <2>2
<1>4. TypeOK'
  BY <1>1, <1>3 DEF IInv, TypeOK
<1>5. Numbered' /\ PacketKept'
  BY <1>1, <1>3 DEF IInv, Numbered, PacketKept, Appending
<1>6. Published' = Published
  BY <1>1 DEF Published
<1>7. ListIsTheLast' /\ SeenIsPublished' /\ RefsAreInWindow' /\ NeverSentAnother'
      /\ StartsAtKeyFrame'
  BY <1>1, <1>6 DEF IInv, ListIsTheLast, SeenIsPublished, Named, RefsAreInWindow,
     NeverSentAnother, StartsAtKeyFrame
<1>8. NextStartsAtKeyFrame'
  BY <1>1, <1>3 DEF IInv, NextStartsAtKeyFrame, Appending, PacketKept
<1> QED
  BY <1>4, <1>5, <1>7, <1>8 DEF IInv

(* The requests of a client keep the invariant. *)
LEMMA ClientKeeps ==
  ASSUME IInv, NEW c \in Clients,
         \/ GetPlayList(c) \/ PostFragment(c)
         \/ \E no \in 0 .. MaxFrags : GetFragmentByName(c, no)
  PROVE  IInv'
<1>1. UNCHANGED <<current, seqNo, fragments, capacity, playlist, packet, pc>>
  BY DEF GetPlayList, PostFragment, GetFragmentByName, muxVars
<1>2. /\ Numbered' /\ PacketKept' /\ ListIsTheLast' /\ StartsAtKeyFrame'
      /\ NextStartsAtKeyFrame' /\ Published' = Published
  BY <1>1 DEF IInv, Numbered, PacketKept, Appending, ListIsTheLast, Named, Published,
     StartsAtKeyFrame, NextStartsAtKeyFrame
<1>3. CASE GetPlayList(c)
  <2>1. view' = [view EXCEPT ![c] = playlist] /\ UNCHANGED <<ref, got>> /\ playlist # << >>
    BY <1>3 DEF GetPlayList
  <2>2. TypeOK' /\ RefsAreInWindow' /\ NeverSentAnother'
    BY <1>1, <2>1 DEF IInv, TypeOK, RefsAreInWindow, NeverSentAnother
  <2>3. \A i \in 1 .. Len(playlist) : playlist[i] < Published
    BY <2>1, Listing, Counts
  <2>4. SeenIsPublished'
    BY <1>2, <2>1, <2>3 DEF IInv, TypeOK, SeenIsPublished
  <2> QED
    BY <1>2, <2>2, <2>4 DEF IInv
<1>4. CASE PostFragment(c)
  <2>1. /\ ref[c] # None /\ ref' = [ref EXCEPT ![c] = None] /\ view' = view
        /\ got' = [got EXCEPT ![c] = [no |-> ref[c].no,
               sent |-> IF ref[c].capacity = capacity THEN fragments[ref[c].at].no ELSE None]]
    BY <1>4 DEF PostFragment
  <2>2. /\ ref[c].no \in 0 .. MaxFrags
        /\ fragments[ref[c].at].no = ref[c].no
    BY <2>1 DEF IInv, TypeOK, Reference, RefsAreInWindow, Numbered
  <2>3. TypeOK' /\ RefsAreInWindow' /\ SeenIsPublished'
    BY <1>1, <1>2, <2>1, <2>2 DEF IInv, TypeOK, RefsAreInWindow, SeenIsPublished
  <2>4. NeverSentAnother'
    BY <2>1, <2>2 DEF IInv, TypeOK, NeverSentAnother
  <2> QED
    BY <1>2, <2>3, <2>4 DEF IInv
<1>5. ASSUME NEW no \in 0 .. MaxFrags, GetFragmentByName(c, no) PROVE IInv'
  <2>1. PICK i \in 1 .. Len(fragments) :
          /\ fragments[i].no = no
          /\ ref' = [ref EXCEPT ![c] = [no |-> no, at |-> i, capacity |-> capacity]]
          /\ UNCHANGED <<view, got>>
    BY <1>5 DEF GetFragmentByName
  <2>2. no = i - 1 /\ [no |-> no, at |-> i, capacity |-> capacity] \in Reference
    <3>1. no = i - 1
      BY <2>1 DEF IInv, Numbered
    <3>2. i \in Nat /\ capacity \in Nat
      BY Counts DEF IInv, TypeOK
    <3> QED
      BY <3>1, <3>2 DEF Reference
  <2>3. TypeOK' /\ NeverSentAnother' /\ SeenIsPublished'
    BY <1>1, <1>2, <2>1, <2>2 DEF IInv, TypeOK, NeverSentAnother, SeenIsPublished
  <2>4. RefsAreInWindow'
    BY <1>1, <2>1, <2>2 DEF IInv, TypeOK, RefsAreInWindow
  <2> QED
    BY <1>2, <2>3, <2>4 DEF IInv
<1> QED
  BY <1>3, <1>4, <1>5

(* Every step keeps the inductive invariant. *)
LEMMA NextIInv == IInv /\ [Next]_vars => IInv'
<1> SUFFICES ASSUME IInv, [Next]_vars PROVE IInv'
  OBVIOUS
<1>1. ASSUME NEW p \in Packets, seqNo < MaxFrags, Append1(p) PROVE IInv'
  BY <1>1, Append1Keeps
<1>2. ASSUME NEW p \in Packets, seqNo < MaxFrags, WriteOnly(p) PROVE IInv'
  BY <1>2, WriteKeeps DEF WriteOnly, Appending
<1>3. CASE Shrink
  BY <1>3, ShrinkKeeps
<1>4. CASE UpdatePlayList
  BY <1>4, UpdateKeeps
<1>5. CASE WriteNext
  BY <1>5, WriteKeeps DEF WriteNext, IInv, PacketKept, Appending
<1>6. ASSUME NEW c \in Clients,
             \/ GetPlayList(c) \/ PostFragment(c)
             \/ \E no \in 0 .. MaxFrags : GetFragmentByName(c, no)
      PROVE  IInv'
  BY <1>6, ClientKeeps
<1>7. CASE UNCHANGED vars
  BY <1>7 DEF vars, muxVars, clientVars, IInv, TypeOK, Numbered, PacketKept, Appending,
     ListIsTheLast, Named, Published, SeenIsPublished, RefsAreInWindow, NeverSentAnother,
     StartsAtKeyFrame, NextStartsAtKeyFrame
<1> QED
  BY <1>1, <1>2, <1>3, <1>4, <1>5, <1>6, <1>7 DEF Next, OnPacket

(* The inductive invariant holds throughout. *)
LEMMA AlwaysIInv == Spec => []IInv
BY InitIInv, NextIInv, PTL DEF Spec

-----------------------------------------------------------------------------
(* What the play list names, now or when a client fetched it, is in order, *)
(* can be fetched at any later time, and is what is sent, whenever the     *)
(* HTTP threads run between the sections of AppendFragment.                *)
THEOREM ListedIsServed == Spec => []ServesWhatItLists
<1>1. ASSUME IInv PROVE PlayListInOrder
  <2> SUFFICES ASSUME playlist # << >> PROVE PlayListInOrder
    BY DEF PlayListInOrder
  <2>1. /\ Len(playlist) >= FirstListed \/ Len(playlist) = Listed
        /\ Len(playlist) <= Listed
    BY <1>1, Listing, Counts
  <2>2. ASSUME NEW i \in 2 .. Len(playlist) PROVE playlist[i] = playlist[i - 1] + 1
    <3>1. i \in 1 .. Named /\ i - 1 \in 1 .. Named
      BY <1>1, Listing, Counts
    <3>2. /\ playlist[i] = Published - Named + i - 1
          /\ playlist[i - 1] = Published - Named + (i - 1) - 1
      BY <1>1, <3>1, Listing
    <3> QED
      BY <1>1, <3>1, <3>2, Counts
  <2>3. fragments[Len(fragments)].no = Len(fragments) - 1
    BY <1>1, Listing, Counts DEF IInv, Numbered
  <2>4. playlist[Len(playlist)] >= fragments[Len(fragments)].no - 1
    BY <1>1, <2>3, Listing, Counts
  <2> QED
    BY <2>1, <2>2, <2>4 DEF PlayListInOrder, Last
<1>2. ASSUME IInv PROVE ListedCanBeFetched
  <2> SUFFICES ASSUME NEW c \in Clients, NEW i \in 1 .. Len(view[c])
               PROVE  /\ \E j \in 1 .. Len(fragments) : fragments[j].no = view[c][i]
                      /\ current # None => current.no # view[c][i]
    BY DEF ListedCanBeFetched
  <2>1. view[c][i] \in Nat /\ view[c][i] < Len(fragments) /\ Len(fragments) \in Nat
    BY <1>2, Counts
  <2>2. view[c][i] + 1 \in 1 .. Len(fragments)
    BY <2>1
  <2> QED
    BY <1>2, <2>1, <2>2 DEF IInv, Numbered
<1>3. IInv => ServesWhatItLists
  BY <1>1, <1>2 DEF IInv, ServesWhatItLists
<1> QED
  BY <1>3, AlwaysIInv, PTL

(* A fragment begins with a key frame or a codec header, or the one before *)
(* it was cut because it was too long.                                     *)
THEOREM FragmentsStartAtKeyFrame == Spec => []StartsAtKeyFrame
<1>1. IInv => StartsAtKeyFrame
  BY DEF IInv
<1> QED
  BY <1>1, AlwaysIInv, PTL

(* The play list never goes back, and goes on with every fragment that     *)
(* AppendFragment adds.                                                    *)
THEOREM PlayListMovesForward == Spec => ListMovesForward
<1> DEFINE Forwards ==
      playlist # << >> =>
        /\ playlist'[1] >= playlist[1] /\ Last(playlist') >= Last(playlist)
        /\ pc = "update" /\ pc' = "write" => Last(playlist') > Last(playlist)
<1>1. ASSUME IInv, IInv', Next PROVE Forwards
  <2> SUFFICES ASSUME playlist # << >> PROVE Forwards
    OBVIOUS
  <2>1. /\ playlist[1] = Published - Named /\ Last(playlist) = Published - 1
        /\ playlist[1] \in Int /\ Last(playlist) \in Int
    BY <1>1, Listing, Counts DEF Last
  <2>2. Published >= FirstListed /\ Named = IF Published > Listed THEN Listed ELSE Published
    BY <1>1, Listing
  <2>3. CASE UpdatePlayList
    <3>1. Published = Len(fragments) - 1 /\ Published' = Len(fragments)
      BY <2>3 DEF UpdatePlayList, Published
    <3>2. Published' = Published + 1 /\ Published' \in Nat
      BY <1>1, <3>1, Counts
    <3>3. Named' = IF Published' > Listed THEN Listed ELSE Published'
      BY DEF Named
    <3>4. Named' \in Nat \ {0} /\ Published' - Named' >= Published - Named
      BY <1>1, <2>2, <3>2, <3>3, Counts
    <3>5. /\ Len(playlist') = Named'
          /\ \A i \in 1 .. Named' : playlist'[i] = Published' - Named' + i - 1
      <4>1. ~(Published' < FirstListed)
        BY <1>1, <2>2, <3>2, Counts
      <4> QED
        BY <1>1, <4>1 DEF IInv, ListIsTheLast
    <3>6. playlist'[1] = Published' - Named' /\ Last(playlist') = Published' - 1
      <4> DEFINE n == Named'
                 k == Published'
      <4>1. /\ n \in Nat \ {0} /\ k \in Nat /\ Len(playlist') = n
            /\ \A i \in 1 .. n : playlist'[i] = k - n + i - 1
        BY <3>2, <3>4, <3>5
      <4> HIDE DEF n, k
      <4>2. playlist'[1] = k - n /\ playlist'[n] = k - 1
        BY <4>1
      <4> QED
        BY <4>1, <4>2 DEF Last, n, k
    <3>7. Published \in Nat /\ Named \in Nat
      BY <1>1, Counts
    <3>8. Published' - 1 > Published - 1 /\ Published' - 1 >= Published - 1
      BY <3>2, <3>7
    <3>9. playlist'[1] >= playlist[1] /\ Last(playlist') > Last(playlist)
          /\ Last(playlist') >= Last(playlist)
      BY <2>1, <3>4, <3>6, <3>8, Zenon
    <3> QED
      BY <3>9
  <2>4. CASE ~UpdatePlayList
    <3>1. UNCHANGED playlist /\ ~(pc = "update" /\ pc' = "write")
      BY <1>1, <2>4 DEF Next, OnPacket, Append1, WriteOnly, WriteNext, Write, Shrink,
         GetPlayList, PostFragment, GetFragmentByName, muxVars
    <3> QED
      BY <2>1, <3>1
  <2> QED
    BY <2>3, <2>4
<1>2. IInv /\ IInv' /\ [Next]_vars => [Forwards]_vars
  BY <1>1
<1> QED
  BY <1>2, AlwaysIInv, PTL DEF Spec, ListMovesForward

-----------------------------------------------------------------------------
(* One HTTP connection.  What the client has sent.                          *)

Symbol ==
  {"get", "ts", "miss", "post", "chunked", "bad", "flv", "cr", "lf", "size", "data", "more",
   "last", "stray", "answer", "head", "body", "end", "http", "tag", "frame", "freed"} \X Nat

(* Request i is in the stream between begin[i] and begin[i + 1].           *)
SentOk ==
  /\ msgs \in Seq(Kinds) /\ stream \in Seq(Symbol) /\ begin \in Seq(Nat)
  /\ Len(begin) = Len(msgs) + 1 /\ begin[Len(msgs) + 1] = Len(stream)
  /\ \A i \in 1 .. Len(msgs) :
       /\ begin[i + 1] = begin[i] + Len(Bytes(msgs[i], i))
       /\ begin[i + 1] <= Len(stream)
       /\ \A j \in 1 .. Len(Bytes(msgs[i], i)) : stream[begin[i] + j] = Bytes(msgs[i], i)[j]
  /\ \A p \in 1 .. Len(stream) : stream[p][1] = "size" => stream[p][2] \in {0, 3}

(***************************************************************************)
(* Until a chunked request is met, the requests before the one that is     *)
(* parsed are those that were delivered, and what has been taken ends with *)
(* the last of them or inside a body.                                      *)
(***************************************************************************)
InRequests ==
  LET d == Len(delivered)
  IN  /\ state \in {"headers", "complete", "normal_body", "error"} /\ d <= Len(msgs)
      /\ \A i \in 1 .. d : delivered[i] = Call(i) /\ msgs[i] # "chunked"
      /\ state \in {"headers", "complete"} => taken = begin[d + 1] /\ left = 0
      /\ state = "normal_body" =>
           /\ req = d + 1 /\ req <= Len(msgs) /\ msgs[req] = "post" /\ left \in 1 .. 3
           /\ taken = begin[req] + (8 - left) /\ chunk = SubSeq(Data(req), 1, 3 - left)
      /\ state = "error" =>
           /\ req = d + 1 /\ req <= Len(msgs) /\ msgs[req] = "bad" /\ left = 0
           /\ taken = begin[req + 1] /\ closed

(* From then on the parser stays with the chunks.                          *)
InChunks ==
  /\ state \in {"chunk_len", "chunk_body", "last_empty", "chunk_complete"}
  /\ req \in 1 .. Len(msgs) /\ msgs[req] = "chunked"
  /\ left \in 0 .. 5 /\ (state = "chunk_body" <=> left > 0)

(* Where it is, if nothing was sent after the chunked request.             *)
InLastRequest ==
  LET d == Len(delivered)
      n == Len(msgs)
  IN  /\ req = n
      /\ \A i \in 1 .. d : delivered[i] = Call(i)
      /\ state = "chunk_len" =>
           \/ d = n - 1 /\ taken = begin[n] + 5 /\ chunk = <<>>
           \/ d = n /\ taken = begin[n] + 13
      /\ state = "chunk_body" =>
           /\ d = n - 1 /\ taken = begin[n] + (13 - left)
           /\ chunk = SubSeq(Data(n) \o CRLF, 1, 5 - left)
      /\ state = "last_empty" => d = n /\ taken = begin[n] + 16
      /\ state = "chunk_complete" =>
           \/ d = n /\ taken = begin[n] + 13
           \/ d = n + 1 /\ taken = begin[n] + 18

ParserOk ==
  /\ read \in Nat /\ taken \in Nat /\ taken <= read /\ read <= Len(stream)
  /\ parsing \in BOOLEAN /\ is_chunked \in BOOLEAN /\ closed \in BOOLEAN
  /\ req \in 0 .. Len(msgs) /\ left \in 0 .. 5
  /\ chunk \in Seq(Symbol) /\ delivered \in Seq(Nat \X Seq(Symbol))
  /\ ~is_chunked => InRequests
  /\ is_chunked => InChunks
  /\ is_chunked /\ Plain => InLastRequest

(* An empty buffer behind all others belongs to the last tag, which is     *)
(* right before it.                                                        *)
HollowOk ==
  /\ hollow \subseteq 0 .. Len(queue)
  /\ hollow # {} => flv = "on"
  /\ Len(queue) \in hollow => /\ Len(out) + Len(queue) > 0
                             /\ (out \o queue)[Len(out) + Len(queue)] = <<"tag", tags>>

(* s is what is wanted, but for what may differ.                           *)
Whole(s) == want \in Seq(Symbol) /\ SameBut(s, want, Spoilt)

AllWhole == ~mixed => Whole(((out \o queue) \o call) \o body)

(* What is to be written.                                                  *)
OutOk ==
  /\ post_state \in {"init", "http", "header", "body"} /\ flv \in {"none", "new", "on"}
  /\ {body, call, queue, out} \subseteq Seq(Symbol)
  /\ tags \in Nat /\ due \in Nat /\ {sending, mixed, reused} \subseteq BOOLEAN
  /\ due > 0 => flv # "none"
  /\ body # <<>> <=> post_state = "header"
  /\ HollowOk /\ AllWhole

(* A loop that goes round for ever does nothing else.                      *)
SpinOk ==
  /\ spin \in {"no", "parse", "write"}
  /\ spin # "no" => call = <<>> /\ due = 0
  /\ spin = "parse" => parsing
  /\ ParserSpinsOnlyOnCut /\ WriterSpinsOnlyOnEmpty

(* The one request for a stream was delivered before the stream is sent.   *)
FlvOk ==
  /\ \A i, j \in 1 .. Len(msgs) : msgs[i] = "flv" /\ msgs[j] = "flv" => i = j
  /\ ~is_chunked /\ flv # "none" =>
       \E j \in 1 .. Len(msgs) : msgs[j] = "flv" /\ j <= Len(delivered)

HIInv == SentOk /\ ParserOk /\ OutOk /\ SpinOk /\ FlvOk

-----------------------------------------------------------------------------
(* Sequences of symbols.                                                    *)

(* The marks that the parser looks for are symbols. *)
LEMMA Marks ==
  /\ CR \in Symbol /\ LF \in Symbol /\ Stray \in Symbol /\ CR # LF
  /\ CRLF \in Seq(Symbol) /\ Len(CRLF) = 2 /\ CRLF[1] = CR /\ CRLF[2] = LF
<1>1. CR \in Symbol /\ LF \in Symbol /\ Stray \in Symbol
  BY DEF CR, LF, Stray, Symbol
<1>2. CR # LF
  BY DEF CR, LF
<1> QED
  BY <1>1, <1>2 DEF CRLF

(* The end of a line. *)
LEMMA EndLine ==
  ASSUME NEW s \in Seq(Symbol), NEW m \in Nat, Len(s) = m
  PROVE  /\ s \o CRLF \in Seq(Symbol) /\ Len(s \o CRLF) = m + 2
         /\ \A j \in 1 .. m : (s \o CRLF)[j] = s[j]
         /\ (s \o CRLF)[m + 1] = CR /\ (s \o CRLF)[m + 2] = LF
<1>1. CRLF \in Seq(Symbol) /\ Len(CRLF) = 2 /\ CRLF[1] = CR /\ CRLF[2] = LF
  BY Marks
<1>2. /\ s \o CRLF \in Seq(Symbol) /\ Len(s \o CRLF) = Len(s) + Len(CRLF)
      /\ \A i \in 1 .. Len(s) + Len(CRLF) :
           (s \o CRLF)[i] = IF i <= Len(s) THEN s[i] ELSE CRLF[i - Len(s)]
  BY <1>1, ConcatProperties
<1>3. \A i \in 1 .. m + 2 : (s \o CRLF)[i] = IF i <= m THEN s[i] ELSE CRLF[i - m]
  BY <1>1, <1>2
<1>4. (s \o CRLF)[m + 1] = CR
  <2>1. m + 1 \in 1 .. m + 2 /\ ~ (m + 1 <= m) /\ (m + 1) - m = 1
    OBVIOUS
  <2>2. (s \o CRLF)[m + 1] = CRLF[(m + 1) - m]
    BY <2>1, <1>3
  <2> QED
    BY <2>1, <2>2, <1>1
<1>5. (s \o CRLF)[m + 2] = LF
  <2>1. m + 2 \in 1 .. m + 2 /\ ~ (m + 2 <= m) /\ (m + 2) - m = 2
    OBVIOUS
  <2>2. (s \o CRLF)[m + 2] = CRLF[(m + 2) - m]
    BY <2>1, <1>3
  <2> QED
    BY <2>1, <2>2, <1>1
<1>6. \A j \in 1 .. m : (s \o CRLF)[j] = s[j]
  BY <1>3
<1> QED
  BY <1>1, <1>2, <1>4, <1>5, <1>6

(* What a request consists of: the header and the empty line, then the     *)
(* body or the chunk and the empty last chunk.                             *)
Shaped(b, k, i) ==
  /\ Len(b) = (IF k = "post" THEN 8 ELSE IF k = "chunked" THEN 18 ELSE 5)
  /\ b[1] = <<k, i>> /\ b[2] = CR /\ b[3] = LF /\ b[4] = CR /\ b[5] = LF
  /\ k = "post" => b[6] = <<"data", i>> /\ b[7] = <<"more", i>> /\ b[8] = <<"last", i>>
  /\ k = "chunked" =>
       /\ b[6] = <<"size", 3>> /\ b[7] = CR /\ b[8] = LF
       /\ b[9] = <<"data", i>> /\ b[10] = <<"more", i>> /\ b[11] = <<"last", i>>
       /\ b[12] = CR /\ b[13] = LF
       /\ b[14] = <<"size", 0>> /\ b[15] = CR /\ b[16] = LF /\ b[17] = CR /\ b[18] = LF

(* The symbols of a request. *)
LEMMA BytesShape ==
  ASSUME NEW k \in Kinds, NEW i \in Nat
  PROVE  Bytes(k, i) \in Seq(Symbol) /\ Shaped(Bytes(k, i), k, i)
<1> DEFINE h == <<<<k, i>>>>
           d == Data(i)
           z == <<<<"size", 3>>>>
           e == <<<<"size", 0>>>>
           l2 == h \o CRLF
           l == l2 \o CRLF
           p == l \o d
           c1 == l \o z
           c2 == c1 \o CRLF
           c3 == c2 \o d
           c4 == c3 \o CRLF
           c5 == c4 \o e
           c6 == c5 \o CRLF
           c7 == c6 \o CRLF
<1>1. Bytes(k, i) = IF k = "post" THEN p ELSE IF k = "chunked" THEN c7 ELSE l
  BY HttpAssumption DEF Bytes, Lines
<1>2. h \in Seq(Symbol) /\ Len(h) = 1 /\ h[1] = <<k, i>>
  <2>1. <<k, i>> \in Symbol
    BY HttpAssumption DEF Symbol
  <2> QED
    BY <2>1
<1>3. /\ d \in Seq(Symbol) /\ Len(d) = 3 /\ d[1] = <<"data", i>> /\ d[2] = <<"more", i>>
      /\ d[3] = <<"last", i>>
  <2>1. <<"data", i>> \in Symbol /\ <<"more", i>> \in Symbol /\ <<"last", i>> \in Symbol
    BY DEF Symbol
  <2> QED
    BY <2>1 DEF Data
<1>4. /\ z \in Seq(Symbol) /\ Len(z) = 1 /\ z[1] = <<"size", 3>>
      /\ e \in Seq(Symbol) /\ Len(e) = 1 /\ e[1] = <<"size", 0>>
  <2>1. <<"size", 3>> \in Symbol /\ <<"size", 0>> \in Symbol
    BY DEF Symbol
  <2> QED
    BY <2>1
<1> DEFINE Cat(s, t, u) ==
             /\ u \in Seq(Symbol) /\ Len(u) = Len(s) + Len(t)
             /\ \A j \in 1 .. Len(s) + Len(t) : u[j] = IF j <= Len(s) THEN s[j] ELSE t[j - Len(s)]
<1>5. \A s \in Seq(Symbol), t \in Seq(Symbol) : Cat(s, t, s \o t)
  BY ConcatProperties
<1> HIDE DEF h, d, z, e
<1>6. l2 \in Seq(Symbol) /\ Len(l2) = 3 /\ l2[1] = <<k, i>> /\ l2[2] = CR /\ l2[3] = LF
  <2>1. /\ l2 \in Seq(Symbol) /\ Len(l2) = 1 + 2 /\ \A j \in 1 .. 1 : l2[j] = h[j]
        /\ l2[1 + 1] = CR /\ l2[1 + 2] = LF
    BY <1>2, EndLine, 1 \in Nat, Zenon
  <2> HIDE DEF l2
  <2> QED
    BY <2>1, <1>2
<1> HIDE DEF l2
<1>7. /\ l \in Seq(Symbol) /\ Len(l) = 5 /\ l[1] = <<k, i>>
      /\ l[2] = CR /\ l[3] = LF /\ l[4] = CR /\ l[5] = LF
  <2>1. /\ l \in Seq(Symbol) /\ Len(l) = 3 + 2 /\ \A j \in 1 .. 3 : l[j] = l2[j]
        /\ l[3 + 1] = CR /\ l[3 + 2] = LF
    BY <1>6, EndLine, 3 \in Nat, Zenon
  <2> HIDE DEF l
  <2> QED
    BY <2>1, <1>6
<1> HIDE DEF l
<1>8. Cat(l, d, p)
  BY <1>3, <1>5, <1>7
<1>9. /\ p \in Seq(Symbol) /\ Len(p) = 8 /\ \A j \in 1 .. 5 : p[j] = l[j]
      /\ p[6] = <<"data", i>> /\ p[7] = <<"more", i>> /\ p[8] = <<"last", i>>
  <2> HIDE DEF p
  <2> QED
    BY <1>8, <1>3, <1>7
<1>10. /\ c2 \in Seq(Symbol) /\ Len(c2) = 8 /\ \A j \in 1 .. 5 : c2[j] = l[j]
       /\ c2[6] = <<"size", 3>> /\ c2[7] = CR /\ c2[8] = LF
  <2>1. Cat(l, z, c1)
    BY <1>4, <1>5, <1>7, Marks
  <2> HIDE DEF c1
  <2>2. c1 \in Seq(Symbol) /\ Len(c1) = 6 /\ \A j \in 1 .. 5 : c1[j] = l[j]
    BY <2>1, <1>7, <1>4
  <2>3. c1[6] = <<"size", 3>>
    BY <2>1, <1>7, <1>4
  <2>4. /\ c2 \in Seq(Symbol) /\ Len(c2) = 6 + 2 /\ \A j \in 1 .. 6 : c2[j] = c1[j]
        /\ c2[6 + 1] = CR /\ c2[6 + 2] = LF
    BY <2>2, EndLine, 6 \in Nat, Zenon
  <2> HIDE DEF c2
  <2> QED
    BY <2>2, <2>3, <2>4
<1> HIDE DEF c2
<1>11. /\ c4 \in Seq(Symbol) /\ Len(c4) = 13 /\ \A j \in 1 .. 8 : c4[j] = c2[j]
       /\ c4[9] = <<"data", i>> /\ c4[10] = <<"more", i>> /\ c4[11] = <<"last", i>>
       /\ c4[12] = CR /\ c4[13] = LF
  <2>1. Cat(c2, d, c3)
    BY <1>3, <1>5, <1>10, Marks
  <2> HIDE DEF c3
  <2>2. c3 \in Seq(Symbol) /\ Len(c3) = 11 /\ \A j \in 1 .. 8 : c3[j] = c2[j]
    BY <2>1, <1>10, <1>3
  <2>3. c3[9] = <<"data", i>> /\ c3[10] = <<"more", i>> /\ c3[11] = <<"last", i>>
    BY <2>1, <1>10, <1>3
  <2>4. /\ c4 \in Seq(Symbol) /\ Len(c4) = 11 + 2 /\ \A j \in 1 .. 11 : c4[j] = c3[j]
        /\ c4[11 + 1] = CR /\ c4[11 + 2] = LF
    BY <2>2, EndLine, 11 \in Nat, Zenon
  <2> HIDE DEF c4
  <2> QED
    BY <2>2, <2>3, <2>4
<1> HIDE DEF c4
<1>12. /\ c6 \in Seq(Symbol) /\ Len(c6) = 16 /\ \A j \in 1 .. 13 : c6[j] = c4[j]
       /\ c6[14] = <<"size", 0>> /\ c6[15] = CR /\ c6[16] = LF
  <2>1. Cat(c4, e, c5)
    BY <1>4, <1>5, <1>11, Marks
  <2> HIDE DEF c5
  <2>2. c5 \in Seq(Symbol) /\ Len(c5) = 14 /\ \A j \in 1 .. 13 : c5[j] = c4[j]
    BY <2>1, <1>11, <1>4
  <2>3. c5[14] = <<"size", 0>>
    BY <2>1, <1>11, <1>4
  <2>4. /\ c6 \in Seq(Symbol) /\ Len(c6) = 14 + 2 /\ \A j \in 1 .. 14 : c6[j] = c5[j]
        /\ c6[14 + 1] = CR /\ c6[14 + 2] = LF
    BY <2>2, EndLine, 14 \in Nat, Zenon
  <2> HIDE DEF c6
  <2> QED
    BY <2>2, <2>3, <2>4
<1> HIDE DEF c6
<1>13. /\ c7 \in Seq(Symbol) /\ Len(c7) = 18 /\ \A j \in 1 .. 16 : c7[j] = c6[j]
       /\ c7[17] = CR /\ c7[18] = LF
  <2>1. /\ c7 \in Seq(Symbol) /\ Len(c7) = 16 + 2 /\ \A j \in 1 .. 16 : c7[j] = c6[j]
        /\ c7[16 + 1] = CR /\ c7[16 + 2] = LF
    <3>1. c6 \in Seq(Symbol) /\ Len(c6) = 16 /\ 16 \in Nat
      BY <1>12
    <3> QED
      BY ONLY <3>1, EndLine DEF c7
  <2> HIDE DEF c7
  <2> QED
    BY <2>1
<1> HIDE DEF p, c7
<1>14. CASE k = "post"
  <2>1. Bytes(k, i) = p
    BY <1>1, <1>14
  <2>2. \A j \in 1 .. 5 : p[j] = l[j]
    BY <1>9
  <2>3. p[1] = <<k, i>> /\ p[2] = CR /\ p[3] = LF /\ p[4] = CR /\ p[5] = LF
    BY <2>2, <1>7
  <2> HIDE DEF l
  <2> QED
    BY <2>1, <2>3, <1>9, <1>14 DEF Shaped
<1>15. CASE k = "chunked"
  <2>1. \A j \in 1 .. 13 : c7[j] = c4[j]
    BY <1>12, <1>13
  <2>2. \A j \in 1 .. 8 : c7[j] = c2[j]
    BY <2>1, <1>11
  <2>3. \A j \in 1 .. 5 : c7[j] = l[j]
    BY <2>2, <1>10
  <2>4. c7[1] = <<k, i>> /\ c7[2] = CR /\ c7[3] = LF /\ c7[4] = CR /\ c7[5] = LF
    BY <2>3, <1>7
  <2>5. c7[6] = <<"size", 3>> /\ c7[7] = CR /\ c7[8] = LF
    BY <2>2, <1>10
  <2>6. /\ c7[9] = <<"data", i>> /\ c7[10] = <<"more", i>> /\ c7[11] = <<"last", i>>
        /\ c7[12] = CR /\ c7[13] = LF
    BY <2>1, <1>11
  <2>7. c7[14] = <<"size", 0>> /\ c7[15] = CR /\ c7[16] = LF
    BY <1>12, <1>13
  <2>8. Bytes(k, i) = c7
    BY <1>1, <1>15
  <2> HIDE DEF c7
  <2>9. k = "chunked" /\ k # "post"
    BY <1>15
  <2>10. c7 \in Seq(Symbol) /\ Len(c7) = 18
    BY <1>13
  <2>11. Shaped(c7, k, i)
    <3>1. Len(c7) = (IF k = "post" THEN 8 ELSE IF k = "chunked" THEN 18 ELSE 5)
      BY <2>9, <2>10
    <3>2. /\ k = "post" => c7[6] = <<"data", i>> /\ c7[7] = <<"more", i>> /\ c7[8] = <<"last", i>>
          /\ k = "chunked" =>
               /\ c7[6] = <<"size", 3>> /\ c7[7] = CR /\ c7[8] = LF
               /\ c7[9] = <<"data", i>> /\ c7[10] = <<"more", i>> /\ c7[11] = <<"last", i>>
               /\ c7[12] = CR /\ c7[13] = LF
               /\ c7[14] = <<"size", 0>> /\ c7[15] = CR /\ c7[16] = LF
               /\ c7[17] = CR /\ c7[18] = LF
      BY ONLY <1>13, <2>5, <2>6, <2>7, <2>9
    <3> QED
      BY ONLY <3>1, <3>2, <2>4 DEF Shaped
  <2> QED
    BY <2>8, <2>10, <2>11
<1>16. CASE k \notin {"post", "chunked"}
  <2>1. Bytes(k, i) = l
    BY <1>1, <1>16
  <2> HIDE DEF l
  <2> QED
    BY <2>1, <1>7, <1>16 DEF Shaped
<1> QED
  BY <1>14, <1>15, <1>16

-----------------------------------------------------------------------------
(* The buffer and what is found in it.                                      *)

(* The buffer is the part of the stream that was read and not yet parsed. *)
LEMMA BufIs ==
  ASSUME SentOk, ParserOk
  PROVE  /\ buf \in Seq(Symbol) /\ Len(buf) = read - taken
         /\ \A i \in 1 .. read - taken : buf[i] = stream[taken + i]
<1>1. /\ stream \in Seq(Symbol) /\ Len(stream) \in Nat
      /\ \A i \in 1 .. Len(stream) : stream[i] \in Symbol
  BY LenProperties DEF SentOk
<1>2. read \in Nat /\ taken \in Nat /\ taken <= read /\ read <= Len(stream)
  BY DEF ParserOk
<1>3. taken + 1 \in Int /\ read \in Int /\ \A i \in taken + 1 .. read : stream[i] \in Symbol
  BY <1>1, <1>2
<1>4. /\ buf \in Seq(Symbol)
      /\ Len(buf) = IF taken + 1 <= read THEN read - (taken + 1) + 1 ELSE 0
      /\ \A i \in 1 .. read - (taken + 1) + 1 : buf[i] = stream[(taken + 1) + i - 1]
  BY <1>3, SubSeqProperties DEF buf
<1>5. Len(buf) = read - taken
  BY <1>2, <1>4
<1>6. ASSUME NEW i \in 1 .. read - taken PROVE buf[i] = stream[taken + i]
  <2>1. i \in 1 .. read - (taken + 1) + 1 /\ (taken + 1) + i - 1 = taken + i
    BY <1>2
  <2> QED
    BY <2>1, <1>4
<1> QED
  BY <1>4, <1>5, <1>6

(* A set of natural numbers that is not empty has a minimum. *)
LEMMA LeastOfNats ==
  ASSUME NEW S, S \subseteq Nat, S # {}
  PROVE  Min(S) \in S /\ \A y \in S : Min(S) <= y
<1> DEFINE R == OpToRel(<, Nat)
<1>1. \A x \in Nat, y \in Nat : y < x => <<y, x>> \in R
  BY DEF OpToRel
<1>2. IsWellFoundedOn(R, Nat)
  BY NatLessThanWellFounded
<1> HIDE DEF R
<1>3. PICK x \in S : \A y \in S : ~ (<<y, x>> \in R)
  BY <1>2, WFMin
<1>4. \A y \in S : ~ (y < x)
  BY <1>1, <1>3
<1>5. \A y \in S : x <= y
  BY <1>4
<1> QED
  BY <1>5 DEF Min

(* The smaller of two integers. *)
LEMMA SmallerOfTwo ==
  ASSUME NEW a \in Int, NEW b \in Int
  PROVE  Min({a, b}) = IF a <= b THEN a ELSE b
<1> DEFINE m == IF a <= b THEN a ELSE b
<1>1. m \in {a, b} /\ \A y \in {a, b} : m <= y
  OBVIOUS
<1>2. Min({a, b}) \in {a, b} /\ \A y \in {a, b} : Min({a, b}) <= y
  BY <1>1 DEF Min
<1> QED
  BY <1>1, <1>2

(* Where pattern p is found in s. *)
Places(s, p) == {i \in 1 .. Len(s) - Len(p) + 1 : SubSeq(s, i, i + Len(p) - 1) = p}

(* The search finds the first place, and none if there is none. *)
LEMMA FindIsFirst ==
  ASSUME NEW s \in Seq(Symbol), NEW p \in Seq(Symbol)
  PROVE  /\ Places(s, p) = {} => find(s, p) = 0
         /\ Places(s, p) # {} => /\ find(s, p) \in Places(s, p)
                                 /\ \A i \in Places(s, p) : find(s, p) <= i
<1>1. find(s, p) = IF Places(s, p) = {} THEN 0 ELSE Min(Places(s, p))
  BY DEF find, Places
<1>2. Places(s, p) \subseteq Nat
  <2>1. Len(s) \in Nat /\ Len(p) \in Nat
    BY LenProperties
  <2> QED
    BY <2>1 DEF Places
<1> QED
  BY <1>1, <1>2, LeastOfNats

(* The end of a line is two symbols. *)
LEMMA LineEndsAt ==
  ASSUME NEW s \in Seq(Symbol), NEW i
  PROVE  i \in Places(s, CRLF) <=> i \in 1 .. Len(s) - 1 /\ s[i] = CR /\ s[i + 1] = LF
<1>1. Len(s) \in Nat /\ \A j \in 1 .. Len(s) : s[j] \in Symbol
  BY LenProperties
<1>2. i \in Places(s, CRLF) <=> i \in 1 .. Len(s) - 1 /\ SubSeq(s, i, i + 1) = CRLF
  BY <1>1, Marks DEF Places
<1>3. ASSUME i \in 1 .. Len(s) - 1
      PROVE  SubSeq(s, i, i + 1) = CRLF <=> s[i] = CR /\ s[i + 1] = LF
  <2> DEFINE t == SubSeq(s, i, i + 1)
  <2>1. i \in Int /\ i + 1 \in Int /\ \A j \in i .. i + 1 : s[j] \in Symbol
    BY <1>1, <1>3
  <2>2. /\ t \in Seq(Symbol) /\ Len(t) = IF i <= i + 1 THEN (i + 1) - i + 1 ELSE 0
        /\ \A j \in 1 .. (i + 1) - i + 1 : t[j] = s[i + j - 1]
    BY <2>1, SubSeqProperties
  <2> HIDE DEF t
  <2>3. Len(t) = 2 /\ t[1] = s[i] /\ t[2] = s[i + 1]
    <3>1. 1 \in 1 .. (i + 1) - i + 1 /\ i + 1 - 1 = i
      BY <2>1
    <3>2. 2 \in 1 .. (i + 1) - i + 1 /\ i + 2 - 1 = i + 1
      BY <2>1
    <3>3. Len(t) = 2
      BY <2>1, <2>2
    <3> QED
      BY <3>1, <3>2, <3>3, <2>2
  <2>4. ASSUME t[1] = CR, t[2] = LF PROVE t = CRLF
    <3>1. \A j \in 1 .. Len(t) : t[j] = CRLF[j]
      BY <2>3, <2>4, Marks
    <3> QED
      BY <3>1, <2>2, <2>3, Marks, SeqEqual
  <2>5. t = CRLF <=> t[1] = CR /\ t[2] = LF
    BY <2>4, Marks
  <2> QED
    BY <2>3, <2>5 DEF t
<1> QED
  BY <1>2, <1>3

(* A line that is there is found, one that is cut is not. *)
LEMMA FindLine ==
  ASSUME NEW s \in Seq(Symbol), Len(s) >= 2
  PROVE  /\ find(s, CRLF) \in 0 .. Len(s) - 1
         /\ s[1] # CR /\ Len(s) = 2 => find(s, CRLF) = 0
         /\ s[1] # CR /\ Len(s) > 2 /\ s[2] = CR /\ s[3] = LF => find(s, CRLF) = 2
         /\ s[1] = CR /\ s[2] = LF => find(s, CRLF) = 1
<1>1. Len(s) \in Nat
  BY LenProperties
<1> DEFINE P == Places(s, CRLF)
           f == find(s, CRLF)
<1>2. (P = {} => f = 0) /\ (P # {} => f \in P /\ \A i \in P : f <= i)
  BY FindIsFirst, Marks
<1>3. \A i : i \in P <=> i \in 1 .. Len(s) - 1 /\ s[i] = CR /\ s[i + 1] = LF
  BY LineEndsAt
<1> HIDE DEF P, f
<1>4. f \in 0 .. Len(s) - 1
  BY <1>1, <1>2, <1>3
<1>5. s[1] # CR /\ Len(s) = 2 => f = 0
  BY <1>1, <1>2, <1>3
<1>6. s[1] = CR /\ s[2] = LF => f = 1
  <2> SUFFICES ASSUME s[1] = CR, s[2] = LF PROVE f = 1
    OBVIOUS
  <2>1. 1 \in P
    BY <1>1, <1>3
  <2>2. f <= 1 /\ f \in 1 .. Len(s) - 1
    BY <2>1, <1>2, <1>3
  <2> QED
    BY <2>2, <1>1
<1>7. s[1] # CR /\ Len(s) > 2 /\ s[2] = CR /\ s[3] = LF => f = 2
  <2> SUFFICES ASSUME s[1] # CR, Len(s) > 2, s[2] = CR, s[3] = LF PROVE f = 2
    OBVIOUS
  <2>1. 2 \in P
    BY <1>1, <1>3
  <2>2. f <= 2 /\ f \in 1 .. Len(s) - 1 /\ s[f] = CR
    BY <2>1, <1>2, <1>3
  <2>3. f # 1
    BY <2>2
  <2> QED
    BY <2>2, <2>3, <1>1
<1> QED
  BY <1>4, <1>5, <1>6, <1>7 DEF f

(* An empty line after a first symbol is found, and what is found is       *)
(* within the buffer. *)
LEMMA FindEmptyLine ==
  ASSUME NEW s \in Seq(Symbol), Len(s) > 4
  PROVE  /\ find(s, CRLF \o CRLF) \in 0 .. Len(s) - 3
         /\ s[1] # CR /\ s[2] = CR /\ s[3] = LF /\ s[4] = CR /\ s[5] = LF =>
              find(s, CRLF \o CRLF) = 2
<1>1. Len(s) \in Nat /\ \A j \in 1 .. Len(s) : s[j] \in Symbol
  BY LenProperties
<1> DEFINE e == CRLF \o CRLF
           P == Places(s, e)
           f == find(s, e)
<1>2. e \in Seq(Symbol) /\ Len(e) = 4 /\ e[1] = CR /\ e[2] = LF /\ e[3] = CR /\ e[4] = LF
  <2>1. /\ e \in Seq(Symbol) /\ Len(e) = 2 + 2 /\ \A j \in 1 .. 2 : e[j] = CRLF[j]
        /\ e[2 + 1] = CR /\ e[2 + 2] = LF
    BY Marks, EndLine, 2 \in Nat, Zenon
  <2> HIDE DEF e
  <2> QED
    BY <2>1, Marks
<1> HIDE DEF e
<1>3. (P = {} => f = 0) /\ (P # {} => f \in P /\ \A i \in P : f <= i)
  <2>1. e \in Seq(Symbol)
    BY <1>2
  <2> QED
    BY <2>1, FindIsFirst
<1>4. \A i : i \in P <=> i \in 1 .. Len(s) - 3 /\ SubSeq(s, i, i + 3) = e
  <2>1. P = {i \in 1 .. Len(s) - Len(e) + 1 : SubSeq(s, i, i + Len(e) - 1) = e}
    BY DEF Places
  <2> HIDE DEF P
  <2>2. Len(s) - Len(e) + 1 = Len(s) - 3
    BY <1>1, <1>2
  <2>3. \A i \in 1 .. Len(s) - 3 : i + Len(e) - 1 = i + 3
    BY <1>2
  <2> QED
    BY <2>1, <2>2, <2>3
<1> HIDE DEF P, f
<1>5. f \in 0 .. Len(s) - 3
  <2>1. P # {} => f \in 1 .. Len(s) - 3
    BY <1>3, <1>4
  <2>2. P = {} => f = 0
    BY <1>3
  <2>3. Len(s) - 3 \in Nat
    BY <1>1
  <2> QED
    BY <2>1, <2>2, <2>3
<1>6. ASSUME s[1] # CR, s[2] = CR, s[3] = LF, s[4] = CR, s[5] = LF PROVE f = 2
  <2>1. /\ SubSeq(s, 2, 5) \in Seq(Symbol) /\ Len(SubSeq(s, 2, 5)) = 4
        /\ \A i \in 1 .. 4 : SubSeq(s, 2, 5)[i] = s[2 + i - 1]
    <3>1. 2 \in Int /\ 5 \in Int /\ \A j \in 2 .. 5 : s[j] \in Symbol
      BY <1>1
    <3> QED
      BY <3>1, SubSeqProperties
  <2>2. \A i \in 1 .. Len(SubSeq(s, 2, 5)) : SubSeq(s, 2, 5)[i] = e[i]
    BY <1>2, <1>6, <2>1
  <2>3. SubSeq(s, 2, 5) = e
    BY <1>2, <2>1, <2>2, SeqEqual
  <2>4. 2 \in P
    <3>1. 2 \in 1 .. Len(s) - 3 /\ 2 + 3 = 5
      BY <1>1
    <3>2. SubSeq(s, 2, 2 + 3) = e
      BY <3>1, <2>3
    <3> QED
      BY <3>1, <3>2, <1>4, Zenon
  <2>5. /\ SubSeq(s, 1, 4) \in Seq(Symbol) /\ SubSeq(s, 1, 4)[1] = s[1]
    <3>1. 1 \in Int /\ 4 \in Int /\ \A j \in 1 .. 4 : s[j] \in Symbol
      BY <1>1
    <3> QED
      BY <3>1, SubSeqProperties
  <2>6. 1 \notin P
    BY <1>2, <1>4, <1>6, <2>5
  <2>7. f \in P /\ f <= 2
    BY <1>3, <2>4
  <2> QED
    BY <1>1, <1>4, <2>6, <2>7
<1> QED
  BY <1>5, <1>6 DEF f, e

(* The symbols of a request are in the stream where the request begins. *)
LEMMA RequestAt ==
  ASSUME SentOk, NEW i \in 1 .. Len(msgs)
  PROVE  /\ i \in Nat /\ msgs[i] \in Kinds /\ begin[i] \in Nat /\ begin[i + 1] <= Len(stream)
         /\ begin[i + 1] = begin[i] + (IF msgs[i] = "post" THEN 8
                                       ELSE IF msgs[i] = "chunked" THEN 18 ELSE 5)
         /\ stream[begin[i] + 1] = <<msgs[i], i>>
         /\ stream[begin[i] + 2] = CR /\ stream[begin[i] + 3] = LF
         /\ stream[begin[i] + 4] = CR /\ stream[begin[i] + 5] = LF
         /\ msgs[i] = "post" =>
              /\ stream[begin[i] + 6] = <<"data", i>> /\ stream[begin[i] + 7] = <<"more", i>>
              /\ stream[begin[i] + 8] = <<"last", i>>
         /\ msgs[i] = "chunked" =>
              /\ stream[begin[i] + 6] = <<"size", 3>>
              /\ stream[begin[i] + 7] = CR /\ stream[begin[i] + 8] = LF
              /\ stream[begin[i] + 9] = <<"data", i>> /\ stream[begin[i] + 10] = <<"more", i>>
              /\ stream[begin[i] + 11] = <<"last", i>>
              /\ stream[begin[i] + 12] = CR /\ stream[begin[i] + 13] = LF
              /\ stream[begin[i] + 14] = <<"size", 0>>
              /\ stream[begin[i] + 15] = CR /\ stream[begin[i] + 16] = LF
              /\ stream[begin[i] + 17] = CR /\ stream[begin[i] + 18] = LF
<1> DEFINE b == Bytes(msgs[i], i)
<1>1. Len(msgs) \in Nat /\ i \in Nat /\ msgs[i] \in Kinds
  BY LenProperties, ElementOfSeq DEF SentOk
<1>2. begin[i] \in Nat
  <2>1. i \in 1 .. Len(begin)
    BY <1>1 DEF SentOk
  <2> QED
    BY <2>1, ElementOfSeq DEF SentOk
<1>3. /\ begin[i + 1] = begin[i] + Len(b) /\ begin[i + 1] <= Len(stream)
      /\ \A j \in 1 .. Len(b) : stream[begin[i] + j] = b[j]
  BY DEF SentOk
<1>4. /\ Len(b) = (IF msgs[i] = "post" THEN 8 ELSE IF msgs[i] = "chunked" THEN 18 ELSE 5)
      /\ b[1] = <<msgs[i], i>> /\ b[2] = CR /\ b[3] = LF /\ b[4] = CR /\ b[5] = LF
      /\ msgs[i] = "post" => /\ b[6] = <<"data", i>> /\ b[7] = <<"more", i>>
                             /\ b[8] = <<"last", i>>
      /\ msgs[i] = "chunked" =>
           /\ b[6] = <<"size", 3>> /\ b[7] = CR /\ b[8] = LF
           /\ b[9] = <<"data", i>> /\ b[10] = <<"more", i>> /\ b[11] = <<"last", i>>
           /\ b[12] = CR /\ b[13] = LF /\ b[14] = <<"size", 0>>
           /\ b[15] = CR /\ b[16] = LF /\ b[17] = CR /\ b[18] = LF
  <2>1. Shaped(b, msgs[i], i)
    BY <1>1, BytesShape
  <2> HIDE DEF b
  <2> QED
    BY <2>1 DEF Shaped
<1> HIDE DEF b
<1>5. \A j \in 1 .. 5 : stream[begin[i] + j] = b[j]
  BY <1>3, <1>4
<1>6. msgs[i] = "post" => \A j \in 1 .. 8 : stream[begin[i] + j] = b[j]
  BY <1>3, <1>4
<1>7. msgs[i] = "chunked" => \A j \in 1 .. 18 : stream[begin[i] + j] = b[j]
  BY <1>3, <1>4
<1>8. /\ stream[begin[i] + 1] = <<msgs[i], i>>
      /\ stream[begin[i] + 2] = CR /\ stream[begin[i] + 3] = LF
      /\ stream[begin[i] + 4] = CR /\ stream[begin[i] + 5] = LF
  <2>1. /\ stream[begin[i] + 1] = b[1] /\ stream[begin[i] + 2] = b[2]
        /\ stream[begin[i] + 3] = b[3] /\ stream[begin[i] + 4] = b[4]
        /\ stream[begin[i] + 5] = b[5]
    BY <1>5
  <2> QED
    BY <2>1, <1>4
<1>9. msgs[i] = "post" =>
        /\ stream[begin[i] + 6] = <<"data", i>> /\ stream[begin[i] + 7] = <<"more", i>>
        /\ stream[begin[i] + 8] = <<"last", i>>
  BY <1>4, <1>6
<1>10. msgs[i] = "chunked" =>
        /\ stream[begin[i] + 6] = <<"size", 3>>
        /\ stream[begin[i] + 7] = CR /\ stream[begin[i] + 8] = LF
        /\ stream[begin[i] + 9] = <<"data", i>> /\ stream[begin[i] + 10] = <<"more", i>>
        /\ stream[begin[i] + 11] = <<"last", i>>
        /\ stream[begin[i] + 12] = CR /\ stream[begin[i] + 13] = LF
  BY <1>4, <1>7
<1>11. msgs[i] = "chunked" =>
        /\ stream[begin[i] + 14] = <<"size", 0>>
        /\ stream[begin[i] + 15] = CR /\ stream[begin[i] + 16] = LF
        /\ stream[begin[i] + 17] = CR /\ stream[begin[i] + 18] = LF
  BY <1>4, <1>7
<1> QED
  BY <1>1, <1>2, <1>3, <1>4, <1>8, <1>9, <1>10, <1>11

(* The parser is at the end of the stream only when it has delivered all.  *)
(* While more than a byte is there, a header is that of the next request. *)
LEMMA AtHeader ==
  ASSUME SentOk, ParserOk, ~is_chunked, state \in {"headers", "complete"}, Len(buf) > 1,
         NEW i, i = Len(delivered) + 1
  PROVE  i \in 1 .. Len(msgs) /\ taken = begin[i]
<1>1. taken = begin[i] /\ i - 1 <= Len(msgs) /\ taken < read /\ read <= Len(stream)
  BY BufIs DEF ParserOk, InRequests
<1>2. Len(delivered) \in Nat /\ Len(msgs) \in Nat /\ begin[Len(msgs) + 1] = Len(stream)
  BY LenProperties DEF ParserOk, SentOk
<1>3. i # Len(msgs) + 1
  BY <1>1, <1>2 DEF ParserOk
<1> QED
  BY <1>1, <1>2, <1>3

(* The state that bytes are parsed in and the state the parser is in. *)
LEMMA EnteredFrom ==
  ASSUME ParserOk
  PROVE  /\ entered \in {"headers", "error", "normal_body"} => ~is_chunked
         /\ entered \in {"chunk_len", "chunk_body", "last_empty"} => is_chunked
         /\ entered = "headers" => state \in {"headers", "complete"}
         /\ entered = "error" => state = "error"
         /\ entered = "normal_body" => state = "normal_body" /\ old_chunk = chunk
         /\ entered = "chunk_len" => state \in {"chunk_len", "chunk_complete"}
         /\ entered = "chunk_body" => state = "chunk_body" /\ old_chunk = chunk
         /\ entered = "last_empty" => state = "last_empty"
         /\ old_chunk \in Seq(Symbol)
         /\ state = "chunk_complete" => old_chunk = <<>>
<1>1. chunk \in Seq(Symbol) /\ <<>> \in Seq(Symbol)
  BY EmptySeq DEF ParserOk
<1>2. CASE is_chunked
  <2>1. state \in {"chunk_len", "chunk_body", "last_empty", "chunk_complete"}
    BY <1>2 DEF ParserOk, InChunks
  <2> QED
    BY <1>1, <1>2, <2>1 DEF entered, old_chunk
<1>3. CASE ~is_chunked
  <2>1. state \in {"headers", "complete", "normal_body", "error"}
    BY <1>3 DEF ParserOk, InRequests
  <2> QED
    BY <1>1, <1>3, <2>1 DEF entered, old_chunk
<1> QED
  BY <1>2, <1>3 DEF ParserOk

(* A piece of a body is put behind the pieces before it. *)
LEMMA PieceBehind ==
  ASSUME NEW D \in Seq(Symbol), NEW b \in Seq(Symbol), NEW m \in Nat, NEW z \in Nat,
         m + z <= Len(D), z <= Len(b), \A j \in 1 .. z : b[j] = D[m + j]
  PROVE  SubSeq(D, 1, m) \o SubSeq(b, 1, z) = SubSeq(D, 1, m + z)
<1> DEFINE x == SubSeq(D, 1, m)
           y == SubSeq(b, 1, z)
           w == SubSeq(D, 1, m + z)
<1>1. /\ Len(D) \in Nat /\ Len(b) \in Nat
      /\ \A j \in 1 .. Len(D) : D[j] \in Symbol
      /\ \A j \in 1 .. Len(b) : b[j] \in Symbol
  BY LenProperties
<1>2. x \in Seq(Symbol) /\ Len(x) = m /\ \A j \in 1 .. m : x[j] = D[j]
  <2>1. \A j \in 1 .. m : D[j] \in Symbol
    BY <1>1
  <2>2. /\ x \in Seq(Symbol) /\ Len(x) = IF 1 <= m THEN m - 1 + 1 ELSE 0
        /\ \A j \in 1 .. m - 1 + 1 : x[j] = D[1 + j - 1]
    BY <2>1, 1 \in Int, m \in Int, SubSeqProperties
  <2> QED
    BY <2>2
<1>3. y \in Seq(Symbol) /\ Len(y) = z /\ \A j \in 1 .. z : y[j] = b[j]
  <2>1. \A j \in 1 .. z : b[j] \in Symbol
    BY <1>1
  <2>2. /\ y \in Seq(Symbol) /\ Len(y) = IF 1 <= z THEN z - 1 + 1 ELSE 0
        /\ \A j \in 1 .. z - 1 + 1 : y[j] = b[1 + j - 1]
    BY <2>1, 1 \in Int, z \in Int, SubSeqProperties
  <2> QED
    BY <2>2
<1>4. w \in Seq(Symbol) /\ Len(w) = m + z /\ \A j \in 1 .. m + z : w[j] = D[j]
  <2>1. (\A j \in 1 .. m + z : D[j] \in Symbol) /\ m + z \in Int
    BY <1>1
  <2>2. /\ w \in Seq(Symbol) /\ Len(w) = IF 1 <= m + z THEN (m + z) - 1 + 1 ELSE 0
        /\ \A j \in 1 .. (m + z) - 1 + 1 : w[j] = D[1 + j - 1]
    BY <2>1, 1 \in Int, SubSeqProperties
  <2> QED
    BY <2>2
<1> HIDE DEF x, y, w
<1>5. /\ x \o y \in Seq(Symbol) /\ Len(x \o y) = Len(x) + Len(y)
      /\ \A j \in 1 .. Len(x) + Len(y) : (x \o y)[j] = IF j <= Len(x) THEN x[j] ELSE y[j - Len(x)]
  BY <1>2, <1>3, ConcatProperties
<1>6. ASSUME NEW j \in 1 .. m + z PROVE (x \o y)[j] = w[j]
  <2>1. (x \o y)[j] = IF j <= m THEN x[j] ELSE y[j - m]
    BY <1>2, <1>3, <1>5
  <2>2. CASE j <= m
    BY <2>1, <2>2, <1>2, <1>4
  <2>3. CASE ~ (j <= m)
    <3>1. j - m \in 1 .. z /\ m + (j - m) = j
      BY <2>3
    <3>2. y[j - m] = D[m + (j - m)]
      BY <3>1, <1>3
    <3> QED
      BY <3>1, <3>2, <2>1, <2>3, <1>4
  <2> QED
    BY <2>2, <2>3
<1>7. x \o y = w
  BY <1>2, <1>3, <1>4, <1>5, <1>6, SeqEqual
<1> QED
  BY <1>7 DEF x, y, w

-----------------------------------------------------------------------------
(* The parser's steps.                                                      *)

(* What is said of the client's requests stays while none is sent. *)
LEMMA AskedStays ==
  ASSUME UNCHANGED askVars
  PROVE  /\ SentOk => SentOk'
         /\ Plain' <=> Plain
         /\ \A i : Call(i)' = Call(i)
<1>1. msgs' = msgs /\ stream' = stream /\ begin' = begin
  BY DEF askVars
<1>2. SentOk => SentOk'
  BY <1>1 DEF SentOk
<1>3. Plain' <=> Plain
  BY <1>1 DEF Plain
<1>4. \A i : Call(i)' = Call(i)
  BY <1>1 DEF Call
<1> QED
  BY <1>2, <1>3, <1>4

(* The call that a request leads to. *)
LEMMA CallIs ==
  ASSUME NEW i \in 1 .. Len(msgs), SentOk
  PROVE  /\ msgs[i] \in {"post", "chunked"} => Call(i) = <<i, Data(i)>>
         /\ msgs[i] \notin {"post", "chunked", "bad"} => Call(i) = <<i, <<>>>>
         /\ msgs[i] = "bad" => Call(i) = <<>>
<1>1. DOMAIN msgs = 1 .. Len(msgs) /\ Len(msgs) \in Nat
  BY LenProperties DEF SentOk
<1>2. i # Len(msgs) + 1
  BY <1>1
<1> QED
  BY <1>1, <1>2 DEF Call

(* One more call of OnRequest. *)
LEMMA OneMore ==
  ASSUME ParserOk, NEW i \in Nat, NEW c \in Seq(Symbol), delivered' = Append(delivered, <<i, c>>)
  PROVE  /\ delivered' \in Seq(Nat \X Seq(Symbol)) /\ Len(delivered') = Len(delivered) + 1
         /\ \A j \in 1 .. Len(delivered) : delivered'[j] = delivered[j]
         /\ delivered'[Len(delivered) + 1] = <<i, c>>
<1>1. delivered \in Seq(Nat \X Seq(Symbol)) /\ <<i, c>> \in Nat \X Seq(Symbol)
  BY DEF ParserOk
<1> QED
  BY <1>1, AppendProperties

(* The parser stays where it is and goes round. *)
LEMMA SpinsKeeps ==
  ASSUME SentOk, ParserOk, OutOk, InLoop, Spins
  PROVE  SentOk' /\ ParserOk' /\ OutOk' /\ call' = <<>> /\ due' = 0 /\ spin' = "parse" /\ parsing'
<1>1. /\ UNCHANGED <<askVars, read, taken, parsing, left, req, is_chunked, delivered, outVars, closed>>
      /\ spin' = "parse" /\ state' = entered /\ chunk' = old_chunk
      /\ parsing /\ call = <<>> /\ due = 0 /\ Len(buf) > 1
  BY DEF Spins, InLoop, Returned
<1>2. /\ SentOk' /\ (Plain' <=> Plain) /\ \A i : Call(i)' = Call(i)
      /\ msgs' = msgs /\ stream' = stream /\ begin' = begin
  BY <1>1, AskedStays DEF askVars
<1>3. OutOk' /\ call' = <<>> /\ due' = 0
  BY <1>1 DEF OutOk, outVars, HollowOk, AllWhole, Whole, Spoilt
<1>4. chunk' \in Seq(Symbol)
  BY <1>1, EnteredFrom
<1>5. ~is_chunked => InRequests'
  <2> SUFFICES ASSUME ~is_chunked PROVE InRequests'
    OBVIOUS
  <2>1. InRequests
    BY DEF ParserOk
  <2>2. CASE state = "complete"
    <3>1. state' = "headers"
      BY <1>1, <2>2 DEF entered
    <3> QED
      BY <1>1, <1>2, <2>1, <2>2, <3>1 DEF InRequests
  <2>3. CASE state # "complete"
    <3>1. state' = state /\ chunk' = chunk
      BY <1>1, <2>1, <2>3 DEF entered, old_chunk, InRequests
    <3> QED
      BY <1>1, <1>2, <2>1, <3>1 DEF InRequests
  <2> QED
    BY <2>2, <2>3
<1>6. is_chunked => InChunks'
  <2> SUFFICES ASSUME is_chunked PROVE InChunks'
    OBVIOUS
  <2>1. InChunks /\ (state = "chunk_complete" => state' = "chunk_len")
        /\ (state # "chunk_complete" => state' = state)
    BY <1>1 DEF ParserOk, entered, InChunks
  <2> QED
    BY <1>1, <1>2, <2>1 DEF InChunks
<1>7. is_chunked /\ Plain => InLastRequest'
  <2> SUFFICES ASSUME is_chunked, Plain PROVE InLastRequest'
    OBVIOUS
  <2>1. InChunks /\ InLastRequest
    BY DEF ParserOk
  <2>2. CASE state = "chunk_complete"
    <3>1. state' = "chunk_len"
      BY <1>1, <2>2 DEF entered
    <3>2. taken < read /\ read <= Len(stream) /\ read \in Nat /\ taken \in Nat
      BY <1>1, BufIs DEF ParserOk
    <3>3. Len(stream) = begin[Len(msgs)] + 18
      <4>1. Len(msgs) \in 1 .. Len(msgs) /\ msgs[Len(msgs)] = "chunked"
        BY <2>1 DEF InChunks, InLastRequest
      <4> QED
        BY <4>1, RequestAt DEF SentOk
    <3>4. Len(delivered) = Len(msgs) /\ taken = begin[Len(msgs)] + 13
      BY <2>1, <2>2, <3>2, <3>3 DEF InLastRequest
    <3> QED
      BY <1>1, <1>2, <2>1, <3>1, <3>4 DEF InLastRequest
  <2>3. CASE state # "chunk_complete"
    <3>1. state' = state /\ chunk' = chunk
      BY <1>1, <2>1, <2>3 DEF entered, old_chunk, InChunks
    <3> QED
      BY <1>1, <1>2, <2>1, <3>1 DEF InLastRequest
  <2> QED
    BY <2>2, <2>3
<1>8. ParserOk'
  BY <1>1, <1>2, <1>4, <1>5, <1>6, <1>7 DEF ParserOk
<1> QED
  BY <1>1, <1>2, <1>3, <1>8

(* A header that is cut is the only one that is not parsed. *)
LEMMA HeaderCut ==
  ASSUME SentOk, ParserOk, InLoop, entered = "headers",
         Len(buf) <= 4 \/ find(buf, CRLF \o CRLF) = 0
  PROVE  read \in Cuts
<1> DEFINE i == Len(delivered) + 1
<1>1. ~is_chunked /\ state \in {"headers", "complete"} /\ Len(buf) > 1
  BY EnteredFrom DEF InLoop
<1>2. i \in 1 .. Len(msgs) /\ taken = begin[i]
  BY <1>1, AtHeader
<1> HIDE DEF i
<1>3. /\ begin[i] \in Nat /\ stream[begin[i] + 1] = <<msgs[i], i>>
      /\ stream[begin[i] + 2] = CR /\ stream[begin[i] + 3] = LF
      /\ stream[begin[i] + 4] = CR /\ stream[begin[i] + 5] = LF
      /\ msgs[i] \in Kinds
  BY <1>2, RequestAt
<1>4. buf \in Seq(Symbol) /\ Len(buf) = read - taken /\ read \in Nat /\ taken \in Nat
      /\ \A j \in 1 .. read - taken : buf[j] = stream[taken + j]
  <2>1. read \in Nat /\ taken \in Nat /\ read <= Len(stream)
    BY DEF ParserOk
  <2> QED
    BY <2>1, BufIs
<1>5. Len(buf) <= 4
  <2> SUFFICES ASSUME Len(buf) > 4 PROVE FALSE
    BY <1>4
  <2>0. \A j \in 1 .. 5 : buf[j] = stream[begin[i] + j]
    <3>1. read - taken > 4 /\ read - taken \in Int
      BY <1>4
    <3>2. \A j \in 1 .. 5 : j \in 1 .. read - taken
      BY ONLY <3>1
    <3>3. \A j \in 1 .. read - taken : buf[j] = stream[begin[i] + j]
      BY <1>2, <1>4, Zenon
    <3> QED
      BY ONLY <3>2, <3>3, Zenon
  <2>1. /\ buf[1] = <<msgs[i], i>> /\ buf[2] = CR /\ buf[3] = LF /\ buf[4] = CR /\ buf[5] = LF
    <3>1. /\ buf[1] = stream[begin[i] + 1] /\ buf[2] = stream[begin[i] + 2]
          /\ buf[3] = stream[begin[i] + 3] /\ buf[4] = stream[begin[i] + 4]
          /\ buf[5] = stream[begin[i] + 5]
      <4>1. 1 \in 1 .. 5 /\ 2 \in 1 .. 5 /\ 3 \in 1 .. 5 /\ 4 \in 1 .. 5 /\ 5 \in 1 .. 5
        OBVIOUS
      <4> QED
        BY ONLY <2>0, <4>1, Zenon
    <3> QED
      BY <1>3, <3>1, Zenon
  <2>2. buf[1] # CR
    BY <1>3, <2>1, HttpAssumption DEF CR
  <2>3. find(buf, CRLF \o CRLF) = 2
    BY <1>4, <2>1, <2>2, FindEmptyLine
  <2> QED
    BY <2>3
<1>6. read \in {begin[i] + 2, begin[i] + 3, begin[i] + 4}
  <2> DEFINE b == begin[i]
  <2>1. Len(buf) = read - b /\ b \in Nat
    BY <1>2, <1>3, <1>4
  <2> HIDE DEF b
  <2>2. read - b > 1 /\ read - b <= 4
    BY <1>1, <1>5, <2>1
  <2>3. read \in {b + 2, b + 3, b + 4}
    BY <2>1, <2>2, <1>4
  <2> QED
    BY <2>3 DEF b
<1>7. i \in DOMAIN msgs
  BY <1>2, LenProperties DEF SentOk
<1> QED
  BY <1>6, <1>7 DEF Cuts

(* What a header that is not cut leads to. *)
LEMMA HeaderTaken ==
  ASSUME SentOk, ParserOk, InLoop, entered = "headers",
         Len(buf) > 4, find(buf, CRLF \o CRLF) # 0,
         NEW i, i = Len(delivered) + 1
  PROVE  /\ i \in 1 .. Len(msgs) /\ taken = begin[i] /\ begin[i] \in Nat
         /\ find(buf, CRLF \o CRLF) = 2
         /\ buf[1] = <<msgs[i], i>> /\ taken + 5 <= read
<1>1. ~is_chunked /\ state \in {"headers", "complete"} /\ Len(buf) > 1
  BY EnteredFrom DEF InLoop
<1>2. i \in 1 .. Len(msgs) /\ taken = begin[i]
  BY <1>1, AtHeader
<1>3. /\ begin[i] \in Nat /\ stream[begin[i] + 1] = <<msgs[i], i>>
      /\ stream[begin[i] + 2] = CR /\ stream[begin[i] + 3] = LF
      /\ stream[begin[i] + 4] = CR /\ stream[begin[i] + 5] = LF
      /\ msgs[i] \in Kinds
  BY <1>2, RequestAt
<1>4. buf \in Seq(Symbol) /\ Len(buf) = read - taken /\ read \in Nat /\ taken \in Nat
      /\ \A j \in 1 .. read - taken : buf[j] = stream[taken + j]
  <2>1. read \in Nat /\ taken \in Nat /\ read <= Len(stream)
    BY DEF ParserOk
  <2> QED
    BY <2>1, BufIs
<1>5. /\ buf[1] = <<msgs[i], i>> /\ buf[2] = CR /\ buf[3] = LF /\ buf[4] = CR /\ buf[5] = LF
  <2>1. \A j \in 1 .. 5 : buf[j] = stream[begin[i] + j]
    <3> SUFFICES ASSUME NEW j \in 1 .. 5 PROVE buf[j] = stream[begin[i] + j]
      OBVIOUS
    <3>1. j \in 1 .. read - taken /\ taken + j = begin[i] + j
      BY <1>2, <1>4
    <3> QED
      BY <3>1, <1>4
  <2>2. /\ buf[1] = stream[begin[i] + 1] /\ buf[2] = stream[begin[i] + 2]
        /\ buf[3] = stream[begin[i] + 3] /\ buf[4] = stream[begin[i] + 4]
        /\ buf[5] = stream[begin[i] + 5]
    BY <2>1
  <2> QED
    BY <1>3, <2>2
<1>6. buf[1] # CR
  BY <1>3, <1>5, HttpAssumption DEF CR
<1>7. find(buf, CRLF \o CRLF) = 2
  BY <1>4, <1>5, <1>6, FindEmptyLine
<1>8. taken + 5 <= read
  BY <1>4
<1> QED
  BY <1>2, <1>3, <1>5, <1>7, <1>8

(* The parser after a header. *)
LEMMA HeadersKeep ==
  ASSUME SentOk, ParserOk, ParseHeaders, ~Spins
  PROVE  ParserOk' /\ UNCHANGED askVars /\ UNCHANGED spin
<1> DEFINE i == Len(delivered) + 1
           k == msgs[i]
<1>1. /\ InLoop /\ entered = "headers" /\ Len(buf) > 4 /\ find(buf, CRLF \o CRLF) # 0
  <2>1. InLoop /\ entered = "headers" /\ ~ (Len(buf) <= 4 \/ find(buf, CRLF \o CRLF) = 0)
    BY DEF ParseHeaders
  <2>2. Len(buf) \in Nat
    BY BufIs, LenProperties
  <2> QED
    BY <2>1, <2>2
<1>2. /\ i \in 1 .. Len(msgs) /\ taken = begin[i] /\ begin[i] \in Nat
      /\ find(buf, CRLF \o CRLF) = 2 /\ buf[1] = <<k, i>> /\ taken + 5 <= read
  BY <1>1, HeaderTaken
<1>3. ~is_chunked /\ InRequests /\ Len(delivered) \in Nat /\ i \in Nat /\ Len(msgs) \in Nat
  BY <1>1, EnteredFrom, LenProperties DEF ParserOk, SentOk
<1>4. /\ k \in Kinds /\ begin[i + 1] <= Len(stream)
      /\ begin[i + 1] = begin[i] + (IF k = "post" THEN 8 ELSE IF k = "chunked" THEN 18 ELSE 5)
  BY <1>2, RequestAt
<1>5. \A j \in 1 .. Len(delivered) : delivered[j] = Call(j) /\ msgs[j] # "chunked"
  BY <1>3 DEF InRequests
<1>6. /\ req' = i /\ is_chunked' = (k = "chunked") /\ closed' = (k = "bad")
      /\ taken' = taken + 5 /\ left' = (IF k = "post" THEN 3 ELSE 0) /\ chunk' = <<>>
      /\ state' = (CASE k = "post" -> "normal_body" [] k = "chunked" -> "chunk_len"
                     [] k = "bad" -> "error" [] OTHER -> "complete")
      /\ UNCHANGED <<askVars, read, parsing, spin>>
      /\ k \in {"post", "chunked", "bad"} => UNCHANGED delivered
      /\ k \notin {"post", "chunked", "bad"} => delivered' = Append(delivered, <<i, <<>>>>)
  <2> HIDE DEF i, k
  <2>1. ~ (Len(buf) <= 4 \/ find(buf, CRLF \o CRLF) = 0)
    BY DEF ParseHeaders
  <2>2. buf[1][1] = k /\ buf[1][2] = i /\ 2 + 3 = 5
    BY <1>2
  <2>3. /\ req' = i /\ is_chunked' = (is_chunked \/ k = "chunked") /\ closed' = (k = "bad")
        /\ CASE k = "post"    -> Takes(5, "normal_body", 3, <<>>)
             [] k = "chunked" -> Takes(5, "chunk_len", 0, <<>>)
             [] k = "bad"     -> Takes(5, "error", 0, <<>>)
             [] OTHER         -> Takes(5, "complete", 0, <<>>)
        /\ IF k \in {"post", "chunked", "bad"}
             THEN UNCHANGED <<delivered, outVars>>
             ELSE OnRequest(i, <<>>)
    BY <2>1, <2>2, <1>2 DEF ParseHeaders
  <2> QED
    BY <2>3, <1>3 DEF Takes, OnRequest
<1>7. /\ SentOk' /\ (Plain' <=> Plain) /\ \A j : Call(j)' = Call(j)
      /\ msgs' = msgs /\ stream' = stream /\ begin' = begin
  BY <1>6, AskedStays DEF askVars
<1>8. <<>> \in Seq(Symbol)
  BY EmptySeq
<1>9. /\ read' = read /\ read \in Nat /\ taken' \in Nat /\ taken' <= read /\ read <= Len(stream)
      /\ parsing' \in BOOLEAN /\ is_chunked' \in BOOLEAN /\ closed' \in BOOLEAN
      /\ req' \in 0 .. Len(msgs) /\ left' \in 0 .. 5 /\ chunk' \in Seq(Symbol)
  BY <1>2, <1>3, <1>6, <1>8 DEF ParserOk
<1>10. delivered \in Seq(Nat \X Seq(Symbol))
  BY DEF ParserOk
<1> HIDE DEF k
<1>11. CASE k = "post"
  <2>1. InRequests'
    <3>1. SubSeq(Data(i), 1, 3 - 3) = <<>>
      BY SubSeqEmpty
    <3>2. state' = "normal_body" /\ left' = 3 /\ delivered' = delivered /\ req' = i /\ chunk' = <<>>
      BY <1>6, <1>11
    <3>3. taken' = begin[i] + (8 - 3)
      BY <1>2, <1>6
    <3> QED
      BY <1>2, <1>3, <1>5, <1>7, <1>11, <3>1, <3>2, <3>3 DEF InRequests, k
  <2>2. ~is_chunked' /\ delivered' = delivered
    BY <1>6, <1>11
  <2> QED
    BY <2>1, <2>2, <1>6, <1>7, <1>9, <1>10 DEF ParserOk
<1>12. CASE k = "bad"
  <2>1. InRequests'
    <3>1. /\ state' = "error" /\ left' = 0 /\ delivered' = delivered /\ req' = i /\ closed'
          /\ taken' = begin[i + 1]
      BY <1>2, <1>4, <1>6, <1>12
    <3> QED
      BY <1>2, <1>3, <1>5, <1>7, <1>12, <3>1 DEF InRequests, k
  <2>2. ~is_chunked' /\ delivered' = delivered
    BY <1>6, <1>12
  <2> QED
    BY <2>1, <2>2, <1>6, <1>7, <1>9, <1>10 DEF ParserOk
<1>13. CASE k = "chunked"
  <2>1. /\ state' = "chunk_len" /\ left' = 0 /\ delivered' = delivered /\ req' = i /\ is_chunked'
        /\ chunk' = <<>> /\ taken' = begin[i] + 5
    BY <1>2, <1>6, <1>13
  <2>2. InChunks'
    BY <2>1, <1>2, <1>3, <1>7, <1>13 DEF InChunks, k
  <2>3. Plain => InLastRequest'
    <3> SUFFICES ASSUME Plain PROVE InLastRequest'
      OBVIOUS
    <3>1. i = Len(msgs)
      BY <1>2, <1>3, <1>13 DEF Plain, k
    <3> HIDE DEF i
    <3>2. Len(delivered) = Len(msgs) - 1
      BY <3>1, <1>3 DEF i
    <3> QED
      BY <2>1, <3>1, <3>2, <1>5, <1>7 DEF InLastRequest
  <2> QED
    BY <2>1, <2>2, <2>3, <1>6, <1>7, <1>9, <1>10 DEF ParserOk
<1>14. CASE k \notin {"post", "chunked", "bad"}
  <2>1. /\ state' = "complete" /\ left' = 0 /\ ~is_chunked' /\ taken' = begin[i + 1]
        /\ delivered' = Append(delivered, <<i, <<>>>>)
    BY <1>2, <1>4, <1>6, <1>14
  <2>2. /\ delivered' \in Seq(Nat \X Seq(Symbol)) /\ Len(delivered') = i
        /\ \A j \in 1 .. Len(delivered) : delivered'[j] = delivered[j]
        /\ delivered'[i] = <<i, <<>>>>
    BY <2>1, <1>3, <1>8, OneMore
  <2>3. Call(i) = <<i, <<>>>>
    BY <1>2, <1>14, CallIs DEF k
  <2>4. ASSUME NEW j \in 1 .. i PROVE delivered'[j] = Call(j) /\ msgs[j] # "chunked"
    <3>1. CASE j = i
      BY <3>1, <2>2, <2>3, <1>14 DEF k
    <3>2. CASE j # i
      <4>1. j \in 1 .. Len(delivered)
        BY <3>2, <1>3
      <4> QED
        BY <4>1, <2>2, <1>5
    <3> QED
      BY <3>1, <3>2
  <2> HIDE DEF i
  <2>5. InRequests'
    <3>1. \A j \in 1 .. Len(delivered') : delivered'[j] = Call(j)' /\ msgs'[j] # "chunked"
      BY <2>2, <2>4, <1>7
    <3>2. Len(delivered') <= Len(msgs') /\ taken' = begin'[Len(delivered') + 1]
      BY <2>1, <2>2, <1>2, <1>7
    <3> QED
      BY <2>1, <3>1, <3>2 DEF InRequests
  <2> QED
    BY <2>1, <2>2, <2>5, <1>6, <1>7, <1>9 DEF ParserOk
<1> QED
  BY <1>6, <1>11, <1>12, <1>13, <1>14

(* How much of a body is taken now: no more than is there, nor than is left. *)
LEMMA SizeIs ==
  ASSUME SentOk, ParserOk
  PROVE  /\ size \in Nat /\ size <= left /\ size <= Len(buf) /\ taken + size <= read
         /\ left \in Nat
<1>1. left \in 0 .. 5 /\ Len(buf) = read - taken /\ read \in Nat /\ taken \in Nat /\ taken <= read
  <2>1. left \in 0 .. 5 /\ read \in Nat /\ taken \in Nat /\ taken <= read
    BY DEF ParserOk
  <2> QED
    BY <2>1, BufIs
<1>2. size = IF left <= Len(buf) THEN left ELSE Len(buf)
  BY <1>1, SmallerOfTwo DEF size
<1> QED
  BY <1>1, <1>2

(* The body of a request. *)
LEMMA DataIs ==
  ASSUME NEW i \in Nat
  PROVE  /\ Data(i) \in Seq(Symbol) /\ Len(Data(i)) = 3
         /\ Data(i)[1] = <<"data", i>> /\ Data(i)[2] = <<"more", i>> /\ Data(i)[3] = <<"last", i>>
<1>1. <<"data", i>> \in Symbol /\ <<"more", i>> \in Symbol /\ <<"last", i>> \in Symbol
  BY DEF Symbol
<1> QED
  BY <1>1 DEF Data

(* The parser in a body: what was read of it grows by what comes next. *)
LEMMA NormalBodyKeeps ==
  ASSUME SentOk, ParserOk, ParseNormalBody
  PROVE  ParserOk' /\ UNCHANGED askVars /\ UNCHANGED spin
<1> DEFINE c == old_chunk \o SubSeq(buf, 1, size)
           b == begin[req]
           m == 3 - left
<1>1. /\ InLoop /\ entered = "normal_body"
      /\ taken' = taken + size /\ left' = left - size /\ chunk' = c
      /\ state' = (IF left = size THEN "complete" ELSE "normal_body")
      /\ left = size => delivered' = Append(delivered, <<req, c>>)
      /\ left # size => delivered' = delivered
      /\ UNCHANGED <<askVars, read, parsing, spin, closed, req, is_chunked>>
  BY DEF ParseNormalBody, Takes, OnRequest
<1>2. ~is_chunked /\ state = "normal_body" /\ old_chunk = chunk /\ InRequests
  BY <1>1, EnteredFrom DEF ParserOk
<1>3. /\ req = Len(delivered) + 1 /\ req <= Len(msgs) /\ msgs[req] = "post" /\ left \in 1 .. 3
      /\ taken = b + (8 - left) /\ chunk = SubSeq(Data(req), 1, m)
      /\ \A i \in 1 .. Len(delivered) : delivered[i] = Call(i) /\ msgs[i] # "chunked"
  BY <1>2 DEF InRequests
<1>4. Len(delivered) \in Nat /\ Len(msgs) \in Nat /\ req \in 1 .. Len(msgs) /\ req \in Nat
  BY <1>3, LenProperties DEF ParserOk, SentOk
<1>5. /\ b \in Nat /\ begin[req + 1] = b + 8
      /\ stream[b + 6] = <<"data", req>> /\ stream[b + 7] = <<"more", req>>
      /\ stream[b + 8] = <<"last", req>>
  BY <1>3, <1>4, RequestAt
<1>6. size \in Nat /\ size <= left /\ size <= Len(buf) /\ taken + size <= read
  BY SizeIs
<1>7. /\ Data(req) \in Seq(Symbol) /\ Len(Data(req)) = 3
      /\ \A j \in 1 .. 3 : Data(req)[j] = stream[b + (5 + j)]
  <2>1. /\ Data(req) \in Seq(Symbol) /\ Len(Data(req)) = 3
        /\ Data(req)[1] = stream[b + 6] /\ Data(req)[2] = stream[b + 7]
        /\ Data(req)[3] = stream[b + 8]
    BY <1>4, <1>5, DataIs
  <2> HIDE DEF b
  <2> QED
    BY <2>1
<1>8. /\ buf \in Seq(Symbol) /\ read \in Nat /\ taken \in Nat /\ Len(buf) = read - taken
      /\ read <= Len(stream)
      /\ \A j \in 1 .. read - taken : buf[j] = stream[taken + j]
  <2>1. read \in Nat /\ taken \in Nat /\ read <= Len(stream)
    BY DEF ParserOk
  <2> QED
    BY <2>1, BufIs
<1> HIDE DEF b
<1>8a. /\ left \in 1 .. 3 /\ size \in Nat /\ size <= left /\ taken + size <= read
       /\ taken = b + (8 - left) /\ b \in Nat /\ read \in Nat /\ taken \in Nat
  BY <1>3, <1>5, <1>6, <1>8
<1>9. \A j \in 1 .. size : buf[j] = Data(req)[m + j]
  <2> SUFFICES ASSUME NEW j \in 1 .. size PROVE buf[j] = Data(req)[m + j]
    OBVIOUS
  <2> HIDE DEF size
  <2>1. j \in 1 .. read - taken /\ m + j \in 1 .. 3
    <3>1. j \in Nat /\ 1 <= j /\ j <= size
      BY <1>8a
    <3>2. j <= read - taken /\ j <= left
      BY <3>1, <1>8a
    <3> QED
      BY <3>1, <3>2, <1>8a
  <2>2. taken + j = b + (5 + (m + j))
    BY <1>8a
  <2> QED
    BY <2>1, <2>2, <1>7, <1>8
<1>10. c = SubSeq(Data(req), 1, m + size)
  <2>1. m \in Nat /\ m + size <= Len(Data(req))
    <3>1. m \in Nat /\ m + size <= 3
      <4> HIDE DEF size
      <4> QED
        BY <1>8a
    <3> QED
      BY <3>1, <1>7
  <2>2. SubSeq(Data(req), 1, m) \o SubSeq(buf, 1, size) = SubSeq(Data(req), 1, m + size)
    <3> HIDE DEF m
    <3> QED
      BY <2>1, <1>6, <1>7, <1>8, <1>9, PieceBehind
  <2> QED
    BY <2>2, <1>2, <1>3
<1> HIDE DEF c
<1>11. c \in Seq(Symbol)
  <2>1. \A j \in 1 .. m + size : Data(req)[j] \in Symbol
    <3>1. \A j \in 1 .. 3 : Data(req)[j] \in Symbol
      BY <1>7, ElementOfSeq
    <3>2. m + size \in Nat /\ m + size <= 3
      <4> HIDE DEF size
      <4> QED
        BY <1>8a
    <3> QED
      BY <3>1, <3>2
  <2> QED
    BY <2>1, <1>3, <1>6, <1>10, SubSeqProperties
<1>12. /\ SentOk' /\ (Plain' <=> Plain) /\ \A j : Call(j)' = Call(j)
       /\ msgs' = msgs /\ stream' = stream /\ begin' = begin
  BY <1>1, AskedStays DEF askVars
<1>13. /\ read' = read /\ taken' \in Nat /\ taken' <= read /\ parsing' \in BOOLEAN
       /\ ~is_chunked' /\ closed' \in BOOLEAN /\ req' = req /\ left' \in 0 .. 5
       /\ chunk' \in Seq(Symbol)
  <2>1. taken' \in Nat /\ taken' <= read /\ left' \in 0 .. 5
    <3>1. taken' = taken + size /\ left' = left - size /\ left \in 1 .. 3
      BY <1>1, <1>3
    <3>2. size \in Nat /\ size <= left /\ taken + size <= read /\ taken \in Nat
      BY <1>6, <1>8
    <3> HIDE DEF size
    <3>3. taken + size \in Nat /\ taken + size <= read
      BY <3>2
    <3>4. left - size \in 0 .. 3
      BY <3>1, <3>2
    <3> QED
      BY <3>1, <3>3, <3>4
  <2>2. read' = read /\ parsing' \in BOOLEAN /\ ~is_chunked' /\ closed' \in BOOLEAN
        /\ req' = req /\ chunk' \in Seq(Symbol)
    BY <1>1, <1>2, <1>11 DEF ParserOk
  <2> QED
    BY <2>1, <2>2
<1>14. CASE left = size
  <2>1. /\ state' = "complete" /\ left' = 0 /\ taken' = begin[req + 1]
        /\ delivered' = Append(delivered, <<req, c>>)
    <3> HIDE DEF size
    <3>1. state' = "complete" /\ delivered' = Append(delivered, <<req, c>>)
      BY <1>1, <1>14
    <3>2. left - size = 0 /\ taken + size = b + 8
      BY <1>14, <1>8a
    <3> QED
      BY <3>1, <3>2, <1>1, <1>5
  <2>2. c = Data(req)
    <3>1. m + size = 3
      BY <1>3, <1>14
    <3> QED
      BY <3>1, <1>7, <1>10, SubSeqFull
  <2>3. /\ delivered' \in Seq(Nat \X Seq(Symbol)) /\ Len(delivered') = req
        /\ \A j \in 1 .. Len(delivered) : delivered'[j] = delivered[j]
        /\ delivered'[req] = <<req, c>>
    BY <2>1, <1>3, <1>4, <1>11, OneMore
  <2>4. Call(req) = <<req, Data(req)>>
    BY <1>3, <1>4, CallIs
  <2>5. ASSUME NEW j \in 1 .. req PROVE delivered'[j] = Call(j) /\ msgs[j] # "chunked"
    <3>1. CASE j = req
      BY <3>1, <2>2, <2>3, <2>4, <1>3
    <3>2. CASE j # req
      <4>1. j \in 1 .. Len(delivered)
        BY <3>2, <1>3, <1>4
      <4> QED
        BY <4>1, <2>3, <1>3
    <3> QED
      BY <3>1, <3>2
  <2>6. InRequests'
    <3>1. \A j \in 1 .. Len(delivered') : delivered'[j] = Call(j)' /\ msgs'[j] # "chunked"
      BY <2>3, <2>5, <1>12
    <3>2. Len(delivered') <= Len(msgs') /\ taken' = begin'[Len(delivered') + 1]
      BY <2>1, <2>3, <1>4, <1>12
    <3> QED
      BY <2>1, <3>1, <3>2 DEF InRequests
  <2> QED
    BY <1>1, <1>4, <1>8, <1>12, <1>13, <2>3, <2>6 DEF ParserOk
<1>15. CASE left # size
  <2>0. state' = "normal_body" /\ delivered' = delivered /\ left' = left - size
        /\ taken' = (b + (8 - left)) + size
    BY <1>1, <1>3, <1>15
  <2>1. /\ state' = "normal_body" /\ delivered' = delivered /\ left' \in 1 .. 3
        /\ taken' = b + (8 - left') /\ 3 - left' = m + size
    <3>1. left \in 1 .. 3 /\ size \in Nat /\ size <= left /\ b \in Nat
      BY <1>3, <1>5, <1>6
    <3> HIDE DEF size
    <3>2. left - size \in 1 .. 3
      BY <3>1, <1>15
    <3>3. (b + (8 - left)) + size = b + (8 - (left - size))
      BY <3>1
    <3>4. 3 - (left - size) = (3 - left) + size
      BY <3>1
    <3> QED
      BY <2>0, <3>2, <3>3, <3>4
  <2>2. chunk' = SubSeq(Data(req), 1, 3 - left')
    BY <2>1, <1>1, <1>10
  <2>3. InRequests'
    <3>1. \A i \in 1 .. Len(delivered') : delivered'[i] = Call(i)' /\ msgs'[i] # "chunked"
      BY <2>1, <1>3, <1>12
    <3>2. /\ req' = Len(delivered') + 1 /\ req' <= Len(msgs') /\ msgs'[req'] = "post"
          /\ taken' = begin'[req'] + (8 - left')
          /\ chunk' = SubSeq(Data(req'), 1, 3 - left')
      BY <2>1, <2>2, <1>3, <1>12, <1>13 DEF b
    <3> QED
      BY <2>1, <3>1, <3>2 DEF InRequests
  <2> QED
    BY <1>1, <1>4, <1>8, <1>12, <1>13, <2>1, <2>3 DEF ParserOk
<1> QED
  BY <1>1, <1>14, <1>15

(* A chunked request is the last one if nothing is sent after it. *)
LEMMA LastIsChunked ==
  ASSUME SentOk, ParserOk, is_chunked, Plain, NEW n, n = Len(msgs)
  PROVE  /\ n \in 1 .. Len(msgs) /\ req = n /\ msgs[n] = "chunked" /\ InLastRequest
         /\ Len(delivered) \in Nat /\ n \in Nat /\ begin[n] \in Nat /\ Len(stream) = begin[n] + 18
         /\ stream[begin[n] + 6] = <<"size", 3>>
         /\ stream[begin[n] + 7] = CR /\ stream[begin[n] + 8] = LF
         /\ stream[begin[n] + 9] = <<"data", n>> /\ stream[begin[n] + 10] = <<"more", n>>
         /\ stream[begin[n] + 11] = <<"last", n>>
         /\ stream[begin[n] + 12] = CR /\ stream[begin[n] + 13] = LF
         /\ stream[begin[n] + 14] = <<"size", 0>>
         /\ stream[begin[n] + 15] = CR /\ stream[begin[n] + 16] = LF
         /\ stream[begin[n] + 17] = CR /\ stream[begin[n] + 18] = LF
<1>1. req \in 1 .. Len(msgs) /\ msgs[req] = "chunked" /\ InLastRequest
  BY DEF ParserOk, InChunks
<1>2. req = n /\ n \in Nat
  BY <1>1, LenProperties DEF InLastRequest, SentOk
<1>3. Len(delivered) \in Nat
  BY LenProperties DEF ParserOk
<1>4. n \in 1 .. Len(msgs) /\ msgs[n] = "chunked"
  BY <1>1, <1>2
<1>5. Len(stream) = begin[n + 1]
  BY DEF SentOk
<1> QED
  BY <1>1, <1>2, <1>3, <1>4, <1>5, RequestAt

(* The line of a chunk size is not parsed only when it is cut. *)
LEMMA SizeLineCut ==
  ASSUME SentOk, ParserOk, InLoop, entered = "chunk_len", Plain,
         NEW n, n = Len(msgs)
  PROVE  /\ find(buf, CRLF) = 0 => read \in Cuts
         /\ find(buf, CRLF) # 0 =>
              /\ find(buf, CRLF) = 2 /\ buf[1] = stream[taken + 1]
              /\ \/ Len(delivered) = n - 1 /\ taken = begin[n] + 5 /\ old_chunk = <<>>
                 \/ Len(delivered) = n /\ taken = begin[n] + 13
<1> DEFINE b == begin[n]
<1>1. is_chunked /\ state \in {"chunk_len", "chunk_complete"} /\ Len(buf) > 1
  BY EnteredFrom DEF InLoop
<1>2. /\ n \in 1 .. Len(msgs) /\ msgs[n] = "chunked" /\ InLastRequest /\ n \in Nat
      /\ Len(delivered) \in Nat /\ b \in Nat /\ Len(stream) = b + 18
      /\ stream[b + 6] = <<"size", 3>> /\ stream[b + 7] = CR /\ stream[b + 8] = LF
      /\ stream[b + 14] = <<"size", 0>> /\ stream[b + 15] = CR /\ stream[b + 16] = LF
  BY <1>1, LastIsChunked
<1>3. /\ buf \in Seq(Symbol) /\ read \in Nat /\ taken \in Nat /\ Len(buf) = read - taken
      /\ read <= Len(stream)
      /\ \A j \in 1 .. read - taken : buf[j] = stream[taken + j]
  <2>1. read \in Nat /\ taken \in Nat /\ read <= Len(stream)
    BY DEF ParserOk
  <2> QED
    BY <2>1, BufIs
<1>4. \/ Len(delivered) = n - 1 /\ taken = b + 5 /\ old_chunk = <<>>
      \/ Len(delivered) = n /\ taken = b + 13
  <2>1. CASE state = "chunk_len"
    BY <1>2, <2>1 DEF InLastRequest, old_chunk, entered
  <2>2. CASE state = "chunk_complete"
    <3>1. \/ Len(delivered) = n /\ taken = b + 13
          \/ Len(delivered) = n + 1 /\ taken = b + 18
      BY <1>2, <2>2 DEF InLastRequest
    <3> HIDE DEF b
    <3>2. taken # b + 18
      BY <1>1, <1>2, <1>3
    <3> QED
      BY <3>1, <3>2
  <2> QED
    BY <1>1, <2>1, <2>2
<1> HIDE DEF b
<1>0. b \in Nat /\ read \in Nat /\ taken \in Nat /\ Len(buf) = read - taken /\ Len(buf) >= 2
  BY <1>1, <1>2, <1>3
<1>5. /\ \E v \in {0, 3} : stream[taken + 1] = <<"size", v>>
      /\ stream[taken + 2] = CR /\ stream[taken + 3] = LF
  <2>1. CASE taken = b + 5
    <3>1. taken + 1 = b + 6 /\ taken + 2 = b + 7 /\ taken + 3 = b + 8
      BY <2>1, <1>0
    <3> QED
      BY <3>1, <1>2
  <2>2. CASE taken = b + 13
    <3>1. taken + 1 = b + 14 /\ taken + 2 = b + 15 /\ taken + 3 = b + 16
      BY <2>2, <1>0
    <3> QED
      BY <3>1, <1>2
  <2> QED
    BY <1>4, <2>1, <2>2
<1>6. buf[1] = stream[taken + 1] /\ buf[1] # CR
  <2>1. 1 \in 1 .. read - taken
    BY <1>1, <1>3
  <2> QED
    BY <2>1, <1>3, <1>5 DEF CR
<1>7. CASE Len(buf) = 2
  <2>1. find(buf, CRLF) = 0
    BY <1>0, <1>3, <1>6, <1>7, FindLine
  <2>2. read \in {b + 7, b + 15}
    <3>1. taken = b + 5 \/ taken = b + 13
      BY <1>4
    <3>2. read - taken = 2
      BY <1>0, <1>7
    <3>3. read = taken + 2
      BY <3>2, <1>0
    <3> QED
      BY <3>1, <3>3, <1>0
  <2>3. n \in DOMAIN msgs
    BY <1>2, LenProperties DEF SentOk
  <2>4. read \in Cuts
    BY <2>2, <2>3, <1>2 DEF Cuts, b
  <2> QED
    BY <2>1, <2>4
<1>8. CASE Len(buf) # 2
  <2>1. Len(buf) > 2
    BY <1>1, <1>3, <1>8
  <2>2. buf[2] = CR /\ buf[3] = LF
    <3>1. 2 \in 1 .. read - taken /\ 3 \in 1 .. read - taken
      BY <2>1, <1>3
    <3> QED
      BY <3>1, <1>3, <1>5
  <2>3. find(buf, CRLF) = 2
    BY <1>0, <1>3, <1>6, <2>1, <2>2, FindLine
  <2> QED
    BY <2>3, <1>4, <1>6 DEF b
<1> QED
  BY <1>7, <1>8

(* The parser after the line of a chunk size. *)
LEMMA ChunkLenKeeps ==
  ASSUME SentOk, ParserOk, ParseChunkLen, ~Spins
  PROVE  ParserOk' /\ UNCHANGED askVars /\ UNCHANGED spin
<1> DEFINE end == find(buf, CRLF)
           len == IF buf[1][1] = "size" THEN buf[1][2] ELSE 0
<1>1. /\ InLoop /\ entered = "chunk_len" /\ end # 0
      /\ taken' = taken + (end + 1) /\ chunk' = old_chunk
      /\ state' = (IF len = 0 THEN "last_empty" ELSE "chunk_body")
      /\ left' = (IF len = 0 THEN 0 ELSE len + 2)
      /\ UNCHANGED <<askVars, read, parsing, spin, closed, req, is_chunked, delivered>>
  BY DEF ParseChunkLen, Takes
<1>2. is_chunked /\ InChunks /\ old_chunk \in Seq(Symbol) /\ Len(buf) > 1
  BY <1>1, EnteredFrom DEF ParserOk, InLoop
<1>3. /\ buf \in Seq(Symbol) /\ read \in Nat /\ taken \in Nat /\ Len(buf) = read - taken
      /\ read <= Len(stream)
      /\ \A j \in 1 .. read - taken : buf[j] = stream[taken + j]
  <2>1. read \in Nat /\ taken \in Nat /\ read <= Len(stream)
    BY DEF ParserOk
  <2> QED
    BY <2>1, BufIs
<1>4. end \in 1 .. Len(buf) - 1
  <2>1. Len(buf) >= 2
    BY <1>2, <1>3
  <2>2. end \in 0 .. Len(buf) - 1
    BY <2>1, <1>3, FindLine
  <2> HIDE DEF end
  <2> QED
    BY <2>2, <1>1, <1>3
<1>5. len \in {0, 3}
  <2>1. taken + 1 \in 1 .. Len(stream) /\ 1 \in 1 .. read - taken
    BY <1>2, <1>3, LenProperties DEF SentOk
  <2>2. buf[1] = stream[taken + 1]
    BY <2>1, <1>3
  <2> QED
    BY <2>1, <2>2 DEF SentOk
<1>6. /\ SentOk' /\ (Plain' <=> Plain) /\ \A j : Call(j)' = Call(j)
      /\ msgs' = msgs /\ stream' = stream /\ begin' = begin
  BY <1>1, AskedStays DEF askVars
<1> HIDE DEF end, len
<1>7. /\ read' = read /\ taken' \in Nat /\ taken' <= read /\ parsing' \in BOOLEAN
      /\ is_chunked' /\ closed' \in BOOLEAN /\ req' = req /\ left' \in 0 .. 5
      /\ chunk' \in Seq(Symbol) /\ delivered' = delivered
  BY <1>1, <1>2, <1>3, <1>4, <1>5 DEF ParserOk
<1>8. InChunks'
  BY <1>1, <1>2, <1>5, <1>6, <1>7 DEF InChunks
<1>9. Plain => InLastRequest'
  <2> SUFFICES ASSUME Plain PROVE InLastRequest'
    OBVIOUS
  <2> DEFINE n == Len(msgs)
             b == begin[n]
  <2>1. /\ end = 2 /\ buf[1] = stream[taken + 1]
        /\ \/ Len(delivered) = n - 1 /\ taken = b + 5 /\ old_chunk = <<>>
           \/ Len(delivered) = n /\ taken = b + 13
    BY <1>1, SizeLineCut DEF end
  <2>2. /\ n \in Nat /\ b \in Nat /\ req = n /\ InLastRequest /\ Len(delivered) \in Nat
        /\ stream[b + 6] = <<"size", 3>> /\ stream[b + 14] = <<"size", 0>>
    BY <1>2, LastIsChunked
  <2>3. \A i \in 1 .. Len(delivered) : delivered[i] = Call(i)
    BY <2>2 DEF InLastRequest
  <2> HIDE DEF b, n
  <2>4. CASE Len(delivered) = n - 1 /\ taken = b + 5 /\ old_chunk = <<>>
    <3>1. taken + 1 = b + 6
      BY <2>2, <2>4
    <3>2. len = 3
      BY <3>1, <2>1, <2>2 DEF len
    <3>3. state' = "chunk_body" /\ left' = 5 /\ taken' = b + (13 - 5) /\ chunk' = <<>>
      BY <1>1, <2>1, <2>2, <2>4, <3>2
    <3>4. SubSeq(Data(n) \o CRLF, 1, 5 - 5) = <<>>
      BY SubSeqEmpty
    <3> QED
      BY <1>6, <1>7, <2>2, <2>3, <2>4, <3>3, <3>4 DEF InLastRequest, n, b
  <2>5. CASE Len(delivered) = n /\ taken = b + 13
    <3>1. taken + 1 = b + 14
      BY <2>2, <2>5
    <3>2. len = 0
      BY <3>1, <2>1, <2>2 DEF len
    <3>3. state' = "last_empty" /\ taken' = b + 16
      BY <1>1, <2>1, <2>2, <2>5, <3>2
    <3> QED
      BY <1>6, <1>7, <2>2, <2>3, <2>5, <3>3 DEF InLastRequest, n, b
  <2> QED
    BY <2>1, <2>4, <2>5
<1> QED
  BY <1>1, <1>3, <1>6, <1>7, <1>8, <1>9 DEF ParserOk

(* The chunk with its end of line is put together like a body, and the end *)
(* is cut off. *)
LEMMA ChunkIs ==
  ASSUME NEW i \in Nat
  PROVE  /\ Data(i) \o CRLF \in Seq(Symbol) /\ Len(Data(i) \o CRLF) = 5
         /\ (Data(i) \o CRLF)[1] = <<"data", i>> /\ (Data(i) \o CRLF)[2] = <<"more", i>>
         /\ (Data(i) \o CRLF)[3] = <<"last", i>>
         /\ (Data(i) \o CRLF)[4] = CR /\ (Data(i) \o CRLF)[5] = LF
         /\ SubSeq(Data(i) \o CRLF, 1, 3) = Data(i)
<1> DEFINE d == Data(i)
           e == d \o CRLF
<1>1. /\ d \in Seq(Symbol) /\ Len(d) = 3
      /\ d[1] = <<"data", i>> /\ d[2] = <<"more", i>> /\ d[3] = <<"last", i>>
  BY DataIs
<1> HIDE DEF d
<1>2. /\ e \in Seq(Symbol) /\ Len(e) = 3 + 2 /\ \A j \in 1 .. 3 : e[j] = d[j]
      /\ e[3 + 1] = CR /\ e[3 + 2] = LF
  BY <1>1, EndLine, 3 \in Nat, Zenon
<1>3. SubSeq(e, 1, 3) = d
  <2>1. 1 \in 1 .. Len(d) /\ 3 \in 1 .. Len(d)
    BY <1>1
  <2>2. SubSeq(e, 1, 3) = SubSeq(d, 1, 3)
    BY <1>1, <2>1, Marks, SubSeqOfConcat1
  <2> QED
    BY <2>2, <1>1, SubSeqFull
<1> HIDE DEF e
<1>4. /\ e \in Seq(Symbol) /\ Len(e) = 5
      /\ e[1] = <<"data", i>> /\ e[2] = <<"more", i>> /\ e[3] = <<"last", i>>
      /\ e[4] = CR /\ e[5] = LF
  BY <1>1, <1>2
<1> QED
  BY <1>3, <1>4 DEF d, e

(* What has been read of the last chunk grows by what comes next. *)
LEMMA ChunkGrows ==
  ASSUME SentOk, ParserOk, ParseChunk, Plain, NEW n, n = Len(msgs)
  PROVE  /\ Len(delivered) = n - 1 /\ taken = begin[n] + (13 - left) /\ left \in 1 .. 5
         /\ old_chunk \o SubSeq(buf, 1, size) = SubSeq(Data(n) \o CRLF, 1, (5 - left) + size)
<1> DEFINE D == Data(n) \o CRLF
           b == begin[n]
           m == 5 - left
<1>1. entered = "chunk_body"
  BY DEF ParseChunk
<1>2. is_chunked /\ state = "chunk_body" /\ old_chunk = chunk /\ InChunks
  BY <1>1, EnteredFrom DEF ParserOk
<1>3. /\ n \in Nat /\ b \in Nat /\ InLastRequest
      /\ stream[b + 9] = <<"data", n>> /\ stream[b + 10] = <<"more", n>>
      /\ stream[b + 11] = <<"last", n>> /\ stream[b + 12] = CR /\ stream[b + 13] = LF
  BY <1>2, LastIsChunked
<1>4. /\ Len(delivered) = n - 1 /\ taken = b + (13 - left) /\ chunk = SubSeq(D, 1, m)
  BY <1>2, <1>3 DEF InLastRequest
<1>5. left \in 1 .. 5
  BY <1>2 DEF InChunks
<1>6. /\ D \in Seq(Symbol) /\ Len(D) = 5 /\ \A j \in 1 .. 5 : D[j] = stream[b + (8 + j)]
  <2>1. /\ D \in Seq(Symbol) /\ Len(D) = 5
        /\ D[1] = stream[b + 9] /\ D[2] = stream[b + 10] /\ D[3] = stream[b + 11]
        /\ D[4] = stream[b + 12] /\ D[5] = stream[b + 13]
    BY <1>3, ChunkIs
  <2> HIDE DEF b, D
  <2> QED
    BY <2>1
<1>7. size \in Nat /\ size <= left /\ size <= Len(buf)
  BY SizeIs
<1>8. /\ buf \in Seq(Symbol) /\ read \in Nat /\ taken \in Nat /\ Len(buf) = read - taken
      /\ \A j \in 1 .. read - taken : buf[j] = stream[taken + j]
  <2>1. read \in Nat /\ taken \in Nat /\ read <= Len(stream)
    BY DEF ParserOk
  <2> QED
    BY <2>1, BufIs
<1> HIDE DEF b, D
<1>9. \A j \in 1 .. size : buf[j] = D[m + j]
  <2> SUFFICES ASSUME NEW j \in 1 .. size PROVE buf[j] = D[m + j]
    OBVIOUS
  <2>1. j \in 1 .. read - taken /\ m + j \in 1 .. 5
    BY <1>5, <1>7, <1>8
  <2>2. taken + j = b + (8 + (m + j))
    BY <1>3, <1>4, <1>5
  <2> QED
    BY <2>1, <2>2, <1>6, <1>8
<1>10. SubSeq(D, 1, m) \o SubSeq(buf, 1, size) = SubSeq(D, 1, m + size)
  <2>1. m \in Nat /\ m + size <= Len(D)
    BY <1>5, <1>6, <1>7
  <2> HIDE DEF m
  <2> QED
    BY <2>1, <1>6, <1>7, <1>8, <1>9, PieceBehind
<1> QED
  BY <1>2, <1>4, <1>5, <1>10 DEF D, b

(* The parser in a chunk. *)
LEMMA ChunkKeeps ==
  ASSUME SentOk, ParserOk, ParseChunk
  PROVE  ParserOk' /\ UNCHANGED askVars /\ UNCHANGED spin
<1> DEFINE c == old_chunk \o SubSeq(buf, 1, size)
           whole == SubSeq(c, 1, Len(c) - 2)
<1>1. /\ InLoop /\ entered = "chunk_body"
      /\ taken' = taken + size /\ left' = left - size
      /\ state' = (IF left = size THEN "chunk_complete" ELSE "chunk_body")
      /\ chunk' = (IF left = size THEN whole ELSE c)
      /\ left = size => delivered' = Append(delivered, <<req, whole>>)
      /\ left # size => delivered' = delivered
      /\ UNCHANGED <<askVars, read, parsing, spin, closed, req, is_chunked>>
  <2>1. /\ InLoop /\ entered = "chunk_body" /\ UNCHANGED <<req, is_chunked>>
        /\ IF left = size
             THEN Takes(size, "chunk_complete", 0, whole) /\ OnRequest(req, whole)
             ELSE Takes(size, "chunk_body", left - size, c) /\ UNCHANGED <<delivered, outVars, closed>>
    BY DEF ParseChunk
  <2> HIDE DEF c, whole
  <2>2. left \in Nat /\ size \in Nat
    BY SizeIs
  <2>3. CASE left = size
    <3>1. left - size = 0
      BY <2>2, <2>3
    <3> QED
      BY <2>1, <2>3, <3>1 DEF Takes, OnRequest
  <2>4. CASE left # size
    BY <2>1, <2>4 DEF Takes
  <2> QED
    BY <2>3, <2>4
<1>2. is_chunked /\ state = "chunk_body" /\ InChunks /\ old_chunk \in Seq(Symbol)
  BY <1>1, EnteredFrom DEF ParserOk
<1>3. size \in Nat /\ size <= left /\ size <= Len(buf) /\ taken + size <= read
  BY SizeIs
<1>4. /\ buf \in Seq(Symbol) /\ read \in Nat /\ taken \in Nat /\ read <= Len(stream)
      /\ left \in 1 .. 5 /\ req \in 1 .. Len(msgs) /\ msgs[req] = "chunked" /\ req \in Nat
  BY <1>2, BufIs DEF ParserOk, InChunks
<1>5. c \in Seq(Symbol)
  <2>1. \A j \in 1 .. size : buf[j] \in Symbol
    <3>1. \A j \in 1 .. Len(buf) : buf[j] \in Symbol
      BY <1>4, LenProperties
    <3>2. Len(buf) \in Nat
      BY <1>4, LenProperties
    <3> QED
      BY <3>1, <3>2, <1>3
  <2>2. SubSeq(buf, 1, size) \in Seq(Symbol)
    BY <2>1, <1>3, SubSeqProperties
  <2> QED
    BY <2>2, <1>2, ConcatProperties
<1> HIDE DEF c
<1>6. whole \in Seq(Symbol)
  <2>1. Len(c) \in Nat /\ \A j \in 1 .. Len(c) : c[j] \in Symbol
    BY <1>5, LenProperties
  <2>2. Len(c) - 2 \in Int /\ \A j \in 1 .. Len(c) - 2 : c[j] \in Symbol
    BY <2>1
  <2> QED
    BY <2>2, SubSeqProperties
<1> HIDE DEF whole
<1>7. /\ SentOk' /\ (Plain' <=> Plain) /\ \A j : Call(j)' = Call(j)
      /\ msgs' = msgs /\ stream' = stream /\ begin' = begin
  BY <1>1, AskedStays DEF askVars
<1>8. /\ read' = read /\ taken' \in Nat /\ taken' <= read /\ parsing' \in BOOLEAN
      /\ is_chunked' /\ closed' \in BOOLEAN /\ req' = req /\ left' \in 0 .. 5
      /\ chunk' \in Seq(Symbol)
  BY <1>1, <1>2, <1>3, <1>4, <1>5, <1>6 DEF ParserOk
<1>9. InChunks'
  BY <1>1, <1>2, <1>3, <1>4, <1>7, <1>8 DEF InChunks
<1>10. Plain => /\ Len(delivered) = Len(msgs) - 1
                /\ taken = begin[Len(msgs)] + (13 - left)
                /\ c = SubSeq(Data(Len(msgs)) \o CRLF, 1, (5 - left) + size)
                /\ req = Len(msgs) /\ InLastRequest /\ Len(msgs) \in Nat
                /\ begin[Len(msgs)] \in Nat
  BY <1>2, ChunkGrows, LastIsChunked DEF c
<1>11. CASE left = size
  <2>1. /\ state' = "chunk_complete" /\ left' = 0 /\ taken' = taken + left
        /\ delivered' = Append(delivered, <<req, whole>>)
    BY <1>1, <1>4, <1>11
  <2>2. /\ delivered' \in Seq(Nat \X Seq(Symbol)) /\ Len(delivered') = Len(delivered) + 1
        /\ \A j \in 1 .. Len(delivered) : delivered'[j] = delivered[j]
        /\ delivered'[Len(delivered) + 1] = <<req, whole>>
    BY <2>1, <1>4, <1>6, OneMore
  <2>3. Plain => InLastRequest'
    <3> SUFFICES ASSUME Plain PROVE InLastRequest'
      OBVIOUS
    <3> DEFINE n == Len(msgs)
               b == begin[n]
               D == Data(n) \o CRLF
    <3>1. /\ Len(delivered) = n - 1 /\ taken = b + (13 - left) /\ req = n /\ n \in Nat
          /\ b \in Nat /\ c = SubSeq(D, 1, (5 - left) + size)
          /\ \A i \in 1 .. Len(delivered) : delivered[i] = Call(i)
      BY <1>10 DEF InLastRequest
    <3>2. D \in Seq(Symbol) /\ Len(D) = 5 /\ SubSeq(D, 1, 3) = Data(n)
      BY <3>1, ChunkIs
    <3>3. c = D
      <4>1. (5 - left) + size = 5
        BY <1>4, <1>11
      <4> HIDE DEF D
      <4> QED
        BY <3>1, <3>2, <4>1, SubSeqFull
    <3>4. whole = Data(n)
      BY <3>2, <3>3 DEF whole
    <3>5. Call(n) = <<n, Data(n)>>
      BY <3>1, <1>4, CallIs
    <3> HIDE DEF n, b, D
    <3>6. Len(delivered') = n /\ taken' = b + 13
      BY <2>1, <2>2, <3>1, <1>4
    <3>7. \A j \in 1 .. n : delivered'[j] = Call(j)
      <4> SUFFICES ASSUME NEW j \in 1 .. n PROVE delivered'[j] = Call(j)
        OBVIOUS
      <4>1. CASE j = n
        BY <4>1, <2>2, <3>1, <3>4, <3>5
      <4>2. CASE j # n
        <5>1. j \in 1 .. Len(delivered)
          BY <4>2, <3>1
        <5> QED
          BY <5>1, <2>2, <3>1
      <4> QED
        BY <4>1, <4>2
    <3> QED
      BY <2>1, <3>1, <3>6, <3>7, <1>7, <1>8 DEF InLastRequest, n, b
  <2> QED
    BY <1>1, <1>4, <1>7, <1>8, <1>9, <2>2, <2>3 DEF ParserOk
<1>12. CASE left # size
  <2>1. /\ state' = "chunk_body" /\ left' = left - size /\ taken' = taken + size
        /\ delivered' = delivered /\ chunk' = c
    BY <1>1, <1>12
  <2>2. Plain => InLastRequest'
    <3> SUFFICES ASSUME Plain PROVE InLastRequest'
      OBVIOUS
    <3> DEFINE n == Len(msgs)
               b == begin[n]
    <3>1. /\ Len(delivered) = n - 1 /\ taken = b + (13 - left) /\ req = n /\ n \in Nat
          /\ b \in Nat /\ c = SubSeq(Data(n) \o CRLF, 1, (5 - left) + size)
          /\ \A i \in 1 .. Len(delivered) : delivered[i] = Call(i)
      BY <1>10 DEF InLastRequest
    <3> HIDE DEF n, b
    <3>2. taken' = b + (13 - left') /\ 5 - left' = (5 - left) + size
      BY <2>1, <3>1, <1>3, <1>4
    <3> QED
      BY <2>1, <3>1, <3>2, <1>7, <1>8 DEF InLastRequest, n, b
  <2>3. delivered \in Seq(Nat \X Seq(Symbol))
    BY DEF ParserOk
  <2> QED
    BY <1>1, <1>4, <1>7, <1>8, <1>9, <2>1, <2>2, <2>3 DEF ParserOk
<1> QED
  BY <1>1, <1>11, <1>12

(* The line behind the last chunk is there when it is looked for. *)
LEMMA LastLineThere ==
  ASSUME SentOk, ParserOk, InLoop, entered = "last_empty", Plain,
         NEW n, n = Len(msgs)
  PROVE  /\ find(buf, CRLF) = 1 /\ Len(delivered) = n /\ taken = begin[n] + 16
         /\ read = begin[n] + 18 /\ begin[n] \in Nat
<1> DEFINE b == begin[n]
<1>1. is_chunked /\ state = "last_empty" /\ Len(buf) > 1
  BY EnteredFrom DEF InLoop
<1>2. /\ InLastRequest /\ b \in Nat /\ Len(stream) = b + 18
      /\ stream[b + 17] = CR /\ stream[b + 18] = LF
  BY <1>1, LastIsChunked
<1>3. Len(delivered) = n /\ taken = b + 16
  BY <1>1, <1>2 DEF InLastRequest
<1>4. /\ buf \in Seq(Symbol) /\ read \in Nat /\ taken \in Nat /\ Len(buf) = read - taken
      /\ read <= Len(stream)
      /\ \A j \in 1 .. read - taken : buf[j] = stream[taken + j]
  <2>1. read \in Nat /\ taken \in Nat /\ read <= Len(stream)
    BY DEF ParserOk
  <2> QED
    BY <2>1, BufIs
<1> HIDE DEF b
<1>5. read = b + 18 /\ taken + 1 = b + 17 /\ taken + 2 = b + 18
  BY <1>1, <1>2, <1>3, <1>4
<1>6. Len(buf) = 2 /\ 1 \in 1 .. read - taken /\ 2 \in 1 .. read - taken
  <2>1. b \in Nat
    BY <1>2
  <2> QED
    BY <2>1, <1>3, <1>4, <1>5
<1>7. buf[1] = CR /\ buf[2] = LF
  BY <1>2, <1>4, <1>5, <1>6
<1>8. find(buf, CRLF) = 1
  <2>1. Len(buf) >= 2
    BY <1>6
  <2> QED
    BY <2>1, <1>4, <1>7, FindLine
<1> QED
  BY <1>2, <1>3, <1>5, <1>8 DEF b

(* The parser at the line behind the last chunk. *)
LEMMA LastEmptyKeeps ==
  ASSUME SentOk, ParserOk, ParseLastEmptyChunk, ~Spins
  PROVE  ParserOk' /\ UNCHANGED askVars /\ UNCHANGED spin
<1> DEFINE end == find(buf, CRLF)
<1>1. /\ InLoop /\ entered = "last_empty" /\ end # 0
      /\ taken' = taken + (end + 1) /\ chunk' = <<>> /\ left' = 0
      /\ state' = "chunk_complete" /\ delivered' = Append(delivered, <<req, <<>>>>)
      /\ UNCHANGED <<askVars, read, parsing, spin, closed, req, is_chunked>>
  BY DEF ParseLastEmptyChunk, Takes, OnRequest
<1>2. is_chunked /\ InChunks /\ Len(buf) > 1 /\ <<>> \in Seq(Symbol) /\ Len(delivered) \in Nat
  BY <1>1, EnteredFrom, EmptySeq, LenProperties DEF ParserOk, InLoop
<1>3. /\ buf \in Seq(Symbol) /\ read \in Nat /\ taken \in Nat /\ Len(buf) = read - taken
      /\ read <= Len(stream) /\ req \in 1 .. Len(msgs) /\ req \in Nat
  BY <1>2, BufIs DEF ParserOk, InChunks
<1>4. end \in 1 .. Len(buf) - 1
  <2>1. Len(buf) >= 2
    BY <1>2, <1>3
  <2>2. end \in 0 .. Len(buf) - 1
    BY <2>1, <1>3, FindLine
  <2> HIDE DEF end
  <2> QED
    BY <2>2, <1>1, <1>3
<1>5. /\ SentOk' /\ (Plain' <=> Plain) /\ \A j : Call(j)' = Call(j)
      /\ msgs' = msgs /\ stream' = stream /\ begin' = begin
  BY <1>1, AskedStays DEF askVars
<1>6. /\ delivered' \in Seq(Nat \X Seq(Symbol)) /\ Len(delivered') = Len(delivered) + 1
      /\ \A j \in 1 .. Len(delivered) : delivered'[j] = delivered[j]
      /\ delivered'[Len(delivered) + 1] = <<req, <<>>>>
  BY <1>1, <1>2, <1>3, OneMore
<1>7. Plain => InLastRequest'
  <2> SUFFICES ASSUME Plain PROVE InLastRequest'
    OBVIOUS
  <2> DEFINE n == Len(msgs)
             b == begin[n]
  <2>1. end = 1 /\ Len(delivered) = n /\ taken = b + 16 /\ b \in Nat
    BY <1>1, LastLineThere
  <2>2. /\ n \in 1 .. Len(msgs) /\ n \in Nat /\ req = n /\ msgs[n] = "chunked" /\ InLastRequest
    BY <1>2, LastIsChunked
  <2>3. Call(n + 1) = <<n, <<>>>>
    <3>1. DOMAIN msgs = 1 .. n
      BY LenProperties DEF SentOk
    <3>2. n + 1 \notin DOMAIN msgs /\ n + 1 # 1 /\ (n + 1) - 1 = n
      BY <3>1, <2>2
    <3> QED
      BY <3>2, <2>2 DEF Call
  <2>4. \A i \in 1 .. Len(delivered) : delivered[i] = Call(i)
    BY <2>2 DEF InLastRequest
  <2> HIDE DEF n, b, end
  <2>5. Len(delivered') = n + 1 /\ taken' = b + 18
    BY <2>1, <1>1, <1>6
  <2>6. \A j \in 1 .. n + 1 : delivered'[j] = Call(j)
    <3> SUFFICES ASSUME NEW j \in 1 .. n + 1 PROVE delivered'[j] = Call(j)
      OBVIOUS
    <3>1. CASE j = n + 1
      BY <3>1, <2>1, <2>2, <2>3, <1>6
    <3>2. CASE j # n + 1
      <4>1. j \in 1 .. Len(delivered)
        BY <3>2, <2>1, <2>2
      <4> QED
        BY <4>1, <2>4, <1>6
    <3> QED
      BY <3>1, <3>2
  <2> QED
    BY <1>1, <1>5, <2>2, <2>5, <2>6 DEF InLastRequest, n, b
<1> HIDE DEF end
<1>8. InChunks'
  BY <1>1, <1>2, <1>3, <1>5 DEF InChunks
<1>9. taken' \in Nat /\ taken' <= read
  BY <1>1, <1>3, <1>4
<1> QED
  BY <1>1, <1>2, <1>3, <1>5, <1>6, <1>7, <1>8, <1>9, EmptySeq DEF ParserOk

-----------------------------------------------------------------------------
(* The output.                                                              *)

(* Three sequences of symbols, and that they are put together in any order. *)
(* Together is stated with the two operators, and a use opens them one    *)
(* at a time: the provers then take it for the three named, and no more.    *)
AreSeqs(s, t, u) == s \in Seq(Symbol) /\ t \in Seq(Symbol) /\ u \in Seq(Symbol)
Associates(s, t, u) == (s \o t) \o u = s \o (t \o u)

(* Sequences are put together in any order. *)
LEMMA Together ==
  ASSUME NEW s, NEW t, NEW u, AreSeqs(s, t, u)
  PROVE  Associates(s, t, u)
<1>. s \in Seq(Symbol) /\ t \in Seq(Symbol) /\ u \in Seq(Symbol)
  BY DEF AreSeqs
<1> DEFINE Cat(a, b, c) ==
             /\ c \in Seq(Symbol) /\ Len(c) = Len(a) + Len(b)
             /\ \A i \in 1 .. Len(a) + Len(b) : c[i] = IF i <= Len(a) THEN a[i] ELSE b[i - Len(a)]
           st == s \o t
           tu == t \o u
           x == st \o u
           y == s \o tu
<1>0. \A a \in Seq(Symbol), b \in Seq(Symbol) : Cat(a, b, a \o b)
  BY ConcatProperties
<1>2. Cat(s, t, st) /\ Cat(t, u, tu)
  BY <1>0
<1>3. Cat(st, u, x) /\ Cat(s, tu, y)
  <2> HIDE DEF st, tu
  <2> QED
    BY <1>0, <1>2
<1>1. x = y
  <2> HIDE DEF st, tu, x, y
  <2>1. Len(s) \in Nat /\ Len(t) \in Nat /\ Len(u) \in Nat
    BY LenProperties
  <2>2. Len(x) = Len(y) /\ Len(x) = Len(s) + Len(t) + Len(u)
    BY <2>1, <1>2, <1>3
  <2>3. ASSUME NEW i \in 1 .. Len(x) PROVE x[i] = y[i]
    <3>1. CASE i <= Len(s)
      <4>1. x[i] = st[i] /\ st[i] = s[i]
        BY <3>1, <2>1, <2>2, <1>2, <1>3
      <4>2. y[i] = s[i]
        BY <3>1, <2>1, <2>2, <1>2, <1>3
      <4> QED
        BY <4>1, <4>2
    <3>2. CASE i > Len(s) /\ i <= Len(s) + Len(t)
      <4>1. x[i] = st[i] /\ st[i] = t[i - Len(s)]
        BY <3>2, <2>1, <2>2, <1>2, <1>3
      <4>2. y[i] = tu[i - Len(s)] /\ tu[i - Len(s)] = t[i - Len(s)]
        <5>1. i \in 1 .. Len(s) + Len(tu) /\ ~ (i <= Len(s)) /\ i - Len(s) \in 1 .. Len(t) + Len(u)
          BY <3>2, <2>1, <2>2, <1>2
        <5>2. i - Len(s) <= Len(t)
          BY <3>2, <2>1
        <5> QED
          BY <5>1, <5>2, <1>2, <1>3
      <4> QED
        BY <4>1, <4>2
    <3>3. CASE i > Len(s) + Len(t)
      <4>1. x[i] = u[i - (Len(s) + Len(t))]
        BY <3>3, <2>1, <2>2, <1>2, <1>3
      <4>2. y[i] = tu[i - Len(s)] /\ tu[i - Len(s)] = u[(i - Len(s)) - Len(t)]
        <5>1. i \in 1 .. Len(s) + Len(tu) /\ ~ (i <= Len(s)) /\ i - Len(s) \in 1 .. Len(t) + Len(u)
          BY <3>3, <2>1, <2>2, <1>2
        <5>2. ~ (i - Len(s) <= Len(t))
          BY <3>3, <2>1
        <5> QED
          BY <5>1, <5>2, <1>2, <1>3
      <4>3. (i - Len(s)) - Len(t) = i - (Len(s) + Len(t))
        BY <2>1
      <4> QED
        BY <4>1, <4>2, <4>3
    <3> QED
      BY <3>1, <3>2, <3>3, <2>1
  <2> QED
    BY <2>2, <2>3, <1>3, SeqEqual
<1> QED
  BY <1>1, <1>3 DEF Cat, Associates

(* Two halves of a sequence put together are the sequence, and the other   *)
(* way round. *)
LEMMA Halves ==
  ASSUME NEW s \in Seq(Symbol), NEW t \in Seq(Symbol), NEW n \in 1 .. Len(s)
  PROVE  /\ SubSeq(s, 1, n) \in Seq(Symbol) /\ Len(SubSeq(s, 1, n)) = n
         /\ SubSeq(s, n + 1, Len(s)) \in Seq(Symbol)
         /\ Len(SubSeq(s, n + 1, Len(s))) = Len(s) - n
         /\ SubSeq(s, 1, n) \o SubSeq(s, n + 1, Len(s)) = s
         /\ (t \o SubSeq(s, 1, n)) \o SubSeq(s, n + 1, Len(s)) = t \o s
<1>1. Len(s) \in Nat /\ \A j \in 1 .. Len(s) : s[j] \in Symbol
  BY LenProperties
<1>2. SubSeq(s, 1, n) \in Seq(Symbol) /\ Len(SubSeq(s, 1, n)) = n
  <2>1. 1 \in Int /\ n \in Int /\ \A j \in 1 .. n : s[j] \in Symbol
    BY <1>1
  <2> QED
    BY <2>1, SubSeqProperties
<1>3. SubSeq(s, n + 1, Len(s)) \in Seq(Symbol) /\ Len(SubSeq(s, n + 1, Len(s))) = Len(s) - n
  <2>1. n + 1 \in Int /\ Len(s) \in Int /\ \A j \in n + 1 .. Len(s) : s[j] \in Symbol
    BY <1>1
  <2> QED
    BY <2>1, SubSeqProperties
<1>4. SubSeq(s, 1, n) \o SubSeq(s, n + 1, Len(s)) = s
  <2>1. 1 \in 1 .. Len(s) + 1 /\ n \in 1 - 1 .. Len(s) /\ Len(s) \in n .. Len(s)
    BY <1>1
  <2>2. SubSeq(s, 1, n) \o SubSeq(s, n + 1, Len(s)) = SubSeq(s, 1, Len(s))
    BY <2>1, ConcatAdjacentSubSeq
  <2> QED
    BY <2>2, SubSeqFull
<1>5. (t \o SubSeq(s, 1, n)) \o SubSeq(s, n + 1, Len(s)) = t \o s
  <2> DEFINE a == SubSeq(s, 1, n)
             b == SubSeq(s, n + 1, Len(s))
  <2>1. a \in Seq(Symbol) /\ b \in Seq(Symbol) /\ a \o b = s
    BY <1>2, <1>3, <1>4
  <2> HIDE DEF a, b
  <2>2. (t \o a) \o b = t \o (a \o b)
    <3>1. AreSeqs(t, a, b)
      BY <2>1 DEF AreSeqs
    <3>2. Associates(t, a, b)
      BY <3>1, Together
    <3> QED
      BY <3>2 DEF Associates
  <2>3. (t \o a) \o b = t \o s
    BY <2>1, <2>2
  <2> QED
    BY <2>3 DEF a, b
<1> QED
  BY <1>2, <1>3, <1>4, <1>5

(* A sequence is cut where it was put together. *)
LEMMA CutApart ==
  ASSUME NEW s \in Seq(Symbol), NEW t \in Seq(Symbol)
  PROVE  /\ SubSeq(s \o t, 1, Len(s)) = s
         /\ SubSeq(s \o t, Len(s) + 1, Len(s \o t)) = t
<1> DEFINE u == s \o t
<1>1. Len(s) \in Nat /\ Len(t) \in Nat
  BY LenProperties
<1>2. /\ u \in Seq(Symbol) /\ Len(u) = Len(s) + Len(t)
      /\ \A i \in 1 .. Len(s) + Len(t) : u[i] = IF i <= Len(s) THEN s[i] ELSE t[i - Len(s)]
  BY ConcatProperties
<1> HIDE DEF u
<1>3. \A i \in 1 .. Len(u) : u[i] \in Symbol
  BY <1>2, LenProperties
<1>4. SubSeq(u, 1, Len(s)) = s
  <2> DEFINE v == SubSeq(u, 1, Len(s))
  <2>1. 1 \in Int /\ Len(s) \in Int /\ \A i \in 1 .. Len(s) : u[i] \in Symbol
    BY <1>1, <1>2, <1>3
  <2>2. /\ v \in Seq(Symbol) /\ Len(v) = (IF 1 <= Len(s) THEN Len(s) - 1 + 1 ELSE 0)
        /\ \A i \in 1 .. Len(s) - 1 + 1 : v[i] = u[1 + i - 1]
    BY <2>1, SubSeqProperties
  <2> HIDE DEF v
  <2>3. Len(v) = Len(s)
    BY <1>1, <2>2
  <2>4. \A i \in 1 .. Len(v) : v[i] = s[i]
    <3> SUFFICES ASSUME NEW i \in 1 .. Len(s) PROVE v[i] = s[i]
      BY <2>3
    <3>1. i \in 1 .. Len(s) - 1 + 1 /\ 1 + i - 1 = i /\ i \in 1 .. Len(s) + Len(t) /\ i <= Len(s)
      BY <1>1
    <3> QED
      BY <3>1, <1>2, <2>2
  <2>5. v = s
    BY <2>2, <2>3, <2>4, SeqEqual
  <2> QED
    BY <2>5 DEF v
<1>5. SubSeq(u, Len(s) + 1, Len(u)) = t
  <2> DEFINE v == SubSeq(u, Len(s) + 1, Len(u))
  <2>1. Len(s) + 1 \in Int /\ Len(u) \in Int /\ \A i \in Len(s) + 1 .. Len(u) : u[i] \in Symbol
    BY <1>1, <1>2, <1>3
  <2>2. /\ v \in Seq(Symbol)
        /\ Len(v) = (IF Len(s) + 1 <= Len(u) THEN Len(u) - (Len(s) + 1) + 1 ELSE 0)
        /\ \A i \in 1 .. Len(u) - (Len(s) + 1) + 1 : v[i] = u[(Len(s) + 1) + i - 1]
    BY <2>1, SubSeqProperties
  <2> HIDE DEF v
  <2>3. Len(v) = Len(t)
    BY <1>1, <1>2, <2>2
  <2>4. \A i \in 1 .. Len(v) : v[i] = t[i]
    <3> SUFFICES ASSUME NEW i \in 1 .. Len(t) PROVE v[i] = t[i]
      BY <2>3
    <3>1. /\ i \in 1 .. Len(u) - (Len(s) + 1) + 1 /\ (Len(s) + 1) + i - 1 = Len(s) + i
          /\ Len(s) + i \in 1 .. Len(s) + Len(t) /\ ~ (Len(s) + i <= Len(s))
          /\ (Len(s) + i) - Len(s) = i
      BY <1>1, <1>2
    <3>2. v[i] = u[Len(s) + i]
      BY <3>1, <2>2
    <3>3. u[Len(s) + i] = t[(Len(s) + i) - Len(s)]
      BY <3>1, <1>2
    <3> QED
      BY <3>1, <3>2, <3>3
  <2>5. v = t
    BY <2>2, <2>3, <2>4, SeqEqual
  <2> QED
    BY <2>5 DEF v
<1> QED
  BY <1>4, <1>5 DEF u

(* The variables of the output are sequences. *)
LEMMA OutTypes ==
  ASSUME OutOk
  PROVE  /\ body \in Seq(Symbol) /\ call \in Seq(Symbol) /\ queue \in Seq(Symbol)
         /\ out \in Seq(Symbol) /\ <<>> \in Seq(Symbol)
         /\ Len(out) \in Nat /\ Len(queue) \in Nat /\ Len(call) \in Nat
         /\ out \o queue \in Seq(Symbol)
<1>1. /\ body \in Seq(Symbol) /\ call \in Seq(Symbol) /\ queue \in Seq(Symbol)
      /\ out \in Seq(Symbol)
  BY DEF OutOk
<1> QED
  BY <1>1, EmptySeq, LenProperties, ConcatProperties

(* What is sent when no answer is being written. *)
LEMMA NothingElse ==
  ASSUME OutOk, ~mixed, call = <<>>, body = <<>>
  PROVE  Whole(out \o queue)
<1>1. Whole(((out \o queue) \o <<>>) \o <<>>)
  BY DEF OutOk, AllWhole
<1> QED
  BY <1>1, OutTypes, ConcatEmptySeq

(* More of the same behind both. *)
LEMMA SameAppend ==
  ASSUME NEW s \in Seq(Symbol), NEW t \in Seq(Symbol), NEW l \in Seq(Symbol), NEW K,
         SameBut(s, t, K)
  PROVE  t \o l \in Seq(Symbol) /\ SameBut(s \o l, t \o l, K)
<1>1. /\ Len(s) = Len(t) /\ Len(s) \in Nat /\ Len(l) \in Nat
      /\ \A i \in 1 .. Len(s) : s[i] = t[i] \/ t[i][1] \in K
  BY LenProperties DEF SameBut
<1>2. /\ Len(s \o l) = Len(s) + Len(l) /\ Len(t \o l) = Len(t) + Len(l)
      /\ \A i \in 1 .. Len(s) + Len(l) : (s \o l)[i] = IF i <= Len(s) THEN s[i] ELSE l[i - Len(s)]
      /\ \A i \in 1 .. Len(t) + Len(l) : (t \o l)[i] = IF i <= Len(t) THEN t[i] ELSE l[i - Len(t)]
      /\ t \o l \in Seq(Symbol)
  BY ConcatProperties
<1>3. ASSUME NEW i \in 1 .. Len(s \o l)
      PROVE  (s \o l)[i] = (t \o l)[i] \/ (t \o l)[i][1] \in K
  <2>1. i \in 1 .. Len(s) + Len(l) /\ i \in 1 .. Len(t) + Len(l)
    BY <1>1, <1>2
  <2>2. CASE i <= Len(s)
    <3>1. i \in 1 .. Len(s) /\ (s \o l)[i] = s[i] /\ (t \o l)[i] = t[i]
      BY <1>1, <1>2, <2>1, <2>2
    <3> QED
      BY <3>1, <1>1
  <2>3. CASE ~ (i <= Len(s))
    BY <1>1, <1>2, <2>1, <2>3
  <2> QED
    BY <2>2, <2>3
<1> QED
  BY <1>1, <1>2, <1>3 DEF SameBut

(* u is s and then t.                                                      *)
IsConcat(s, t, u) ==
  /\ u \in Seq(Symbol) /\ Len(u) = Len(s) + Len(t) /\ {Len(s), Len(t)} \subseteq Nat
  /\ \A i \in 1 .. Len(s) + Len(t) : u[i] = IF i <= Len(s) THEN s[i] ELSE t[i - Len(s)]

(* The same as ConcatProperties, in a form that is cited more easily. *)
LEMMA Concatenates ==
  ASSUME NEW s \in Seq(Symbol), NEW t \in Seq(Symbol)
  PROVE  IsConcat(s, t, s \o t)
BY ConcatProperties, LenProperties DEF IsConcat

(* u is s with x put in behind its first n symbols.                        *)
IsPut(s, n, x, u) ==
  /\ u \in Seq(Symbol) /\ Len(u) = Len(s) + 1
  /\ \A j \in 1 .. Len(s) + 1 :
       u[j] = IF j <= n THEN s[j] ELSE IF j = n + 1 THEN x ELSE s[j - 1]

(* A symbol that is put into a sequence. *)
LEMMA PutInto ==
  ASSUME NEW s \in Seq(Symbol), NEW n \in 0 .. Len(s), NEW x \in Symbol
  PROVE  IsPut(s, n, x, (SubSeq(s, 1, n) \o <<x>>) \o SubSeq(s, n + 1, Len(s)))
<1> DEFINE a == SubSeq(s, 1, n)
           b == SubSeq(s, n + 1, Len(s))
           y == <<x>>
           c == a \o y
           u == c \o b
<1>1. Len(s) \in Nat /\ n \in Nat /\ n <= Len(s) /\ \A j \in 1 .. Len(s) : s[j] \in Symbol
  BY LenProperties
<1>2. a \in Seq(Symbol) /\ Len(a) = n /\ \A j \in 1 .. n : a[j] = s[j]
  <2>1. 1 \in Int /\ n \in Int /\ \A j \in 1 .. n : s[j] \in Symbol
    BY <1>1
  <2>2. /\ a \in Seq(Symbol) /\ Len(a) = (IF 1 <= n THEN n - 1 + 1 ELSE 0)
        /\ \A j \in 1 .. n - 1 + 1 : a[j] = s[1 + j - 1]
    BY <2>1, SubSeqProperties
  <2> HIDE DEF a
  <2>3. \A j \in 1 .. n : j \in 1 .. n - 1 + 1 /\ 1 + j - 1 = j
    BY <1>1
  <2> QED
    BY <1>1, <2>2, <2>3
<1>3. /\ b \in Seq(Symbol) /\ Len(b) = Len(s) - n
      /\ \A j \in 1 .. Len(s) - n : b[j] = s[n + j]
  <2>1. n + 1 \in Int /\ Len(s) \in Int /\ \A j \in n + 1 .. Len(s) : s[j] \in Symbol
    BY <1>1
  <2>2. /\ b \in Seq(Symbol) /\ Len(b) = (IF n + 1 <= Len(s) THEN Len(s) - (n + 1) + 1 ELSE 0)
        /\ \A j \in 1 .. Len(s) - (n + 1) + 1 : b[j] = s[(n + 1) + j - 1]
    BY <2>1, SubSeqProperties
  <2> HIDE DEF b
  <2>3. \A j \in 1 .. Len(s) - n : j \in 1 .. Len(s) - (n + 1) + 1 /\ (n + 1) + j - 1 = n + j
    BY <1>1
  <2> QED
    BY <1>1, <2>2, <2>3
<1>4. y \in Seq(Symbol) /\ Len(y) = 1 /\ y[1] = x
  OBVIOUS
<1> HIDE DEF a, b, y
<1>5. /\ c \in Seq(Symbol) /\ Len(c) = n + 1
      /\ \A j \in 1 .. n + 1 : c[j] = IF j <= n THEN a[j] ELSE y[j - n]
  <2>1. /\ c \in Seq(Symbol) /\ Len(c) = Len(a) + Len(y)
        /\ \A j \in 1 .. Len(a) + Len(y) : c[j] = IF j <= Len(a) THEN a[j] ELSE y[j - Len(a)]
    BY <1>2, <1>4, ConcatProperties
  <2> HIDE DEF c
  <2> QED
    BY <1>2, <1>4, <2>1
<1> HIDE DEF c
<1>6. /\ u \in Seq(Symbol) /\ Len(u) = Len(s) + 1
      /\ \A j \in 1 .. Len(s) + 1 : u[j] = IF j <= n + 1 THEN c[j] ELSE b[j - (n + 1)]
  <2>1. /\ u \in Seq(Symbol) /\ Len(u) = Len(c) + Len(b)
        /\ \A j \in 1 .. Len(c) + Len(b) : u[j] = IF j <= Len(c) THEN c[j] ELSE b[j - Len(c)]
    BY <1>3, <1>5, ConcatProperties
  <2>2. Len(c) + Len(b) = Len(s) + 1
    BY <1>1, <1>3, <1>5
  <2> HIDE DEF u
  <2> QED
    BY <1>5, <2>1, <2>2
<1> HIDE DEF u
<1>7. ASSUME NEW j \in 1 .. Len(s) + 1
      PROVE  u[j] = IF j <= n THEN s[j] ELSE IF j = n + 1 THEN x ELSE s[j - 1]
  <2>1. CASE j <= n
    <3>1. j \in 1 .. n /\ j \in 1 .. n + 1 /\ j <= n + 1
      BY <1>1, <2>1
    <3> QED
      BY <2>1, <3>1, <1>2, <1>5, <1>6
  <2>2. CASE j = n + 1
    <3>1. j \in 1 .. n + 1 /\ ~ (j <= n) /\ j - n = 1 /\ j <= n + 1
      BY <1>1, <2>2
    <3> QED
      BY <2>2, <3>1, <1>4, <1>5, <1>6
  <2>3. CASE j > n + 1
    <3>1. /\ ~ (j <= n + 1) /\ ~ (j <= n) /\ j # n + 1
          /\ j - (n + 1) \in 1 .. Len(s) - n /\ n + (j - (n + 1)) = j - 1
      BY <1>1, <2>3
    <3>2. u[j] = b[j - (n + 1)]
      BY <3>1, <1>6
    <3>3. b[j - (n + 1)] = s[j - 1]
      BY <3>1, <1>3
    <3> QED
      BY <3>1, <3>2, <3>3
  <2> QED
    BY <1>1, <2>1, <2>2, <2>3
<1>8. IsPut(s, n, x, u)
  BY <1>6, <1>7 DEF IsPut
<1> QED
  BY <1>8 DEF u, c, a, b, y

(* The same symbol at the same place of both. *)
LEMMA SamePut ==
  ASSUME NEW s \in Seq(Symbol), NEW t \in Seq(Symbol), NEW n \in 0 .. Len(s), NEW K,
         NEW x \in Symbol, SameBut(s, t, K)
  PROVE  LET u == (SubSeq(s, 1, n) \o <<x>>) \o SubSeq(s, n + 1, Len(s))
             v == (SubSeq(t, 1, n) \o <<x>>) \o SubSeq(t, n + 1, Len(t))
         IN  v \in Seq(Symbol) /\ SameBut(u, v, K)
<1> DEFINE u == (SubSeq(s, 1, n) \o <<x>>) \o SubSeq(s, n + 1, Len(s))
           v == (SubSeq(t, 1, n) \o <<x>>) \o SubSeq(t, n + 1, Len(t))
<1>1. /\ Len(s) = Len(t) /\ Len(s) \in Nat /\ n \in 0 .. Len(t) /\ n \in Nat
      /\ \A i \in 1 .. Len(s) : s[i] = t[i] \/ t[i][1] \in K
  BY LenProperties DEF SameBut
<1>2. /\ Len(u) = Len(s) + 1
      /\ \A j \in 1 .. Len(s) + 1 :
           u[j] = IF j <= n THEN s[j] ELSE IF j = n + 1 THEN x ELSE s[j - 1]
  <2>1. IsPut(s, n, x, u)
    BY PutInto
  <2> HIDE DEF u
  <2> QED
    BY <2>1 DEF IsPut
<1>3. /\ v \in Seq(Symbol) /\ Len(v) = Len(t) + 1
      /\ \A j \in 1 .. Len(t) + 1 :
           v[j] = IF j <= n THEN t[j] ELSE IF j = n + 1 THEN x ELSE t[j - 1]
  <2>1. n \in 0 .. Len(t)
    BY <1>1
  <2>2. IsPut(t, n, x, v)
    BY <2>1, PutInto
  <2> HIDE DEF v
  <2> QED
    BY <2>2 DEF IsPut
<1> HIDE DEF u, v
<1>4. ASSUME NEW j \in 1 .. Len(u)
      PROVE  u[j] = v[j] \/ v[j][1] \in K
  <2>1. j \in 1 .. Len(s) + 1 /\ j \in 1 .. Len(t) + 1
    BY <1>1, <1>2
  <2>2. CASE j <= n
    <3>1. j \in 1 .. Len(s) /\ u[j] = s[j] /\ v[j] = t[j]
      BY <1>1, <1>2, <1>3, <2>1, <2>2
    <3> QED
      BY <3>1, <1>1
  <2>3. CASE j = n + 1
    BY <1>1, <1>2, <1>3, <2>1, <2>3
  <2>4. CASE j > n + 1
    <3>1. j - 1 \in 1 .. Len(s) /\ u[j] = s[j - 1] /\ v[j] = t[j - 1]
      BY <1>1, <1>2, <1>3, <2>1, <2>4
    <3> QED
      BY <3>1, <1>1
  <2> QED
    BY <1>1, <2>1, <2>2, <2>3, <2>4
<1> QED
  BY <1>1, <1>2, <1>3, <1>4 DEF SameBut, u, v

(* OnRequest sends an answer only when none is being written. *)
LEMMA OnRequestOut ==
  ASSUME ParserOk, OutOk, call = <<>>, NEW i, NEW c, OnRequest(i, c),
         msgs[i] = "flv" => flv = "none"
  PROVE  OutOk'
<1> DEFINE d == Len(delivered) + 1
<1>1. /\ flv' = (IF msgs[i] = "flv" THEN "new" ELSE flv)
      /\ due' = (IF msgs[i] = "flv" THEN 1 ELSE due)
      /\ UNCHANGED <<queue, hollow, sending, tags, out, mixed, reused>>
  BY DEF OnRequest
<1>2. d \in Nat
  BY LenProperties DEF ParserOk
<1> HIDE DEF d
<1>3. /\ Part(d, "head") \in Seq(Symbol) /\ Part(d, "body") \in Seq(Symbol)
      /\ Part(d, "answer") \in Seq(Symbol) /\ <<>> \in Seq(Symbol)
      /\ Part(d, "body") # <<>>
  <2>1. /\ <<"head", d>> \in Symbol /\ <<"body", d>> \in Symbol /\ <<"answer", d>> \in Symbol
        /\ <<"end", d>> \in Symbol
    BY <1>2 DEF Symbol
  <2>2. /\ <<<<"head", d>>, <<"end", d>>>> \in Seq(Symbol)
        /\ <<<<"body", d>>, <<"end", d>>>> \in Seq(Symbol)
        /\ <<<<"answer", d>>, <<"end", d>>>> \in Seq(Symbol)
        /\ <<<<"body", d>>, <<"end", d>>>> # <<>>
    BY <2>1
  <2> QED
    BY <2>2, EmptySeq DEF Part
<1>4. \/ UNCHANGED <<post_state, body, call, want>>
      \/ \E h \in Seq(Symbol), b \in Seq(Symbol) : PostRequest(h, b)
  <2>1. CASE msgs[i] \in {"flv", "miss"}
    BY <2>1 DEF OnRequest
  <2>2. CASE msgs[i] = "ts"
    BY <2>2, <1>3 DEF OnRequest, d
  <2>3. CASE msgs[i] \notin {"flv", "miss", "ts"}
    BY <2>3, <1>3 DEF OnRequest, d
  <2> QED
    BY <2>1, <2>2, <2>3
<1>5. /\ HollowOk' /\ flv' \in {"none", "new", "on"} /\ tags' \in Nat /\ due' \in Nat
      /\ (due' > 0 => flv' # "none") /\ {sending', mixed', reused'} \subseteq BOOLEAN
  BY <1>1 DEF OutOk, HollowOk
<1>6. CASE UNCHANGED <<post_state, body, call, want>>
  BY <1>1, <1>5, <1>6 DEF OutOk, AllWhole, Whole, Spoilt
<1>7. CASE \E h \in Seq(Symbol), b \in Seq(Symbol) : PostRequest(h, b)
  <2>1. PICK h \in Seq(Symbol), b \in Seq(Symbol) : PostRequest(h, b)
    BY <1>7
  <2>2. CASE post_state # "init"
    <3>1. UNCHANGED <<post_state, body, call, want>>
      BY <2>1, <2>2 DEF PostRequest
    <3> QED
      BY <3>1, <1>6
  <2>3. CASE post_state = "init"
    <3>1. /\ post_state' = (IF b = <<>> THEN "http" ELSE "header")
          /\ body' = b /\ call' = h /\ want' = (want \o h) \o b
      BY <2>1, <2>3 DEF PostRequest
    <3>2. body = <<>>
      BY <2>3 DEF OutOk
    <3>4. AllWhole'
      <4> DEFINE s == out \o queue
      <4> SUFFICES ASSUME ~mixed PROVE Whole(((out \o queue) \o call) \o body)'
        BY <1>1 DEF AllWhole
      <4>1. s \in Seq(Symbol) /\ want \in Seq(Symbol) /\ SameBut(s, want, Spoilt)
        BY <1>1, <3>2, NothingElse, OutTypes DEF Whole
      <4>2. ((out \o queue) \o call)' = s \o h /\ Spoilt' = Spoilt
        BY <3>1, <1>1 DEF Spoilt
      <4> HIDE DEF s
      <4>3. want \o h \in Seq(Symbol) /\ SameBut(s \o h, want \o h, Spoilt)
        BY <4>1, SameAppend
      <4>4. s \o h \in Seq(Symbol)
        BY <4>1, ConcatProperties
      <4>5. /\ (want \o h) \o b \in Seq(Symbol)
            /\ SameBut((s \o h) \o b, (want \o h) \o b, Spoilt)
        BY <4>3, <4>4, SameAppend
      <4> QED
        BY <4>2, <4>5, <3>1 DEF Whole
    <3>5. {body', call', queue', out'} \subseteq Seq(Symbol)
      BY <3>1, <1>1, OutTypes
    <3>6. /\ post_state' \in {"init", "http", "header", "body"}
          /\ (body' # <<>> <=> post_state' = "header")
      BY <3>1, <1>1 DEF OutOk
    <3> QED
      BY <3>4, <3>5, <3>6, <1>5 DEF OutOk
  <2> QED
    BY <2>2, <2>3
<1> QED
  BY <1>4, <1>6, <1>7

(* WriteComplete after the buffers were written. *)
LEMMA CompleteKeeps ==
  ASSUME OutOk, WriteComplete, Kept, UNCHANGED want, hollow' = {},
         out' \in Seq(Symbol), queue' \in Seq(Symbol),
         ~mixed => Whole((out' \o queue') \o body)
  PROVE  OutOk'
<1>1. /\ post_state' = (IF post_state = "header" THEN "body" ELSE "init")
      /\ body' = <<>> /\ call' = body
      /\ due' = (IF flv = "none" THEN due ELSE due + 1)
      /\ UNCHANGED <<flv, sending, tags, mixed, reused, want>>
  BY DEF WriteComplete, Kept
<1>2. {body', call', queue', out'} \subseteq Seq(Symbol)
  BY <1>1, OutTypes
<1>3. AllWhole'
  <2>1. (out' \o queue') \o body \in Seq(Symbol)
    BY OutTypes, ConcatProperties
  <2>2. (((out \o queue) \o call) \o body)' = (out' \o queue') \o body
    BY <2>1, <1>1, ConcatEmptySeq
  <2> QED
    BY <2>2, <1>1 DEF AllWhole, Whole, Spoilt
<1>4. HollowOk'
  BY DEF HollowOk
<1>5. due' \in Nat /\ (due' > 0 => flv' # "none")
  BY <1>1 DEF OutOk
<1> QED
  BY <1>1, <1>2, <1>3, <1>4, <1>5 DEF OutOk

(* A buffer behind others waits its turn. *)
LEMMA QueuedKeeps ==
  ASSUME OutOk, SendQueued
  PROVE  OutOk'
<1>1. /\ queue' = queue \o call /\ call' = <<>>
      /\ UNCHANGED <<post_state, body, hollow, due, sending, out, want, flv, tags, mixed, reused>>
      /\ call # <<>>
  BY DEF SendQueued, Kept
<1>2. /\ queue' \in Seq(Symbol) /\ Len(queue') = Len(queue) + Len(call)
      /\ out \o queue' = (out \o queue) \o call
  <2>1. queue' = queue \o call
    BY <1>1
  <2>2. queue \o call \in Seq(Symbol) /\ Len(queue \o call) = Len(queue) + Len(call)
    BY OutTypes, ConcatProperties
  <2>3. (out \o queue) \o call = out \o (queue \o call)
    <3>1. AreSeqs(out, queue, call)
      BY OutTypes DEF AreSeqs
    <3>2. Associates(out, queue, call)
      BY <3>1, Together
    <3> QED
      BY <3>2 DEF Associates
  <2> QED
    BY <2>1, <2>2, <2>3
<1>3. HollowOk'
  <2>1. Len(call) > 0
    BY <1>1, OutTypes, EmptySeq
  <2>2. hollow \subseteq 0 .. Len(queue) /\ (hollow # {} => flv = "on")
    BY DEF OutOk, HollowOk
  <2>3. Len(queue') \notin hollow /\ hollow \subseteq 0 .. Len(queue')
    BY <2>1, <2>2, <1>2, OutTypes
  <2> QED
    BY <2>2, <2>3, <1>1 DEF HollowOk
<1>4. AllWhole'
  <2>1. (out \o queue) \o call \in Seq(Symbol)
    BY OutTypes, ConcatProperties
  <2>2. (((out \o queue) \o call) \o body)' = ((out \o queue) \o call) \o body
    BY <2>1, <1>1, <1>2, ConcatEmptySeq
  <2> QED
    BY <2>2, <1>1 DEF OutOk, AllWhole, Whole, Spoilt
<1>5. {body', call', queue', out'} \subseteq Seq(Symbol)
  BY <1>1, <1>2, OutTypes
<1> QED
  BY <1>1, <1>3, <1>4, <1>5 DEF OutOk

(* The kernel takes a part of a buffer, or all of it. *)
LEMMA WritesKeeps ==
  ASSUME OutOk, NEW n \in 1 .. Len(call), SendWrites(n)
  PROVE  OutOk'
<1>1. /\ queue = <<>> /\ hollow = {}
      /\ out' = out \o SubSeq(call, 1, n) /\ queue' = SubSeq(call, n + 1, Len(call))
      /\ UNCHANGED <<hollow, want, flv, sending, tags, mixed, reused>>
  BY DEF SendWrites, NothingQueued, Kept
<1>2. /\ out' \in Seq(Symbol) /\ queue' \in Seq(Symbol)
      /\ out' \o queue' = out \o call
  <2> DEFINE a == SubSeq(call, 1, n)
             b == SubSeq(call, n + 1, Len(call))
  <2>1. out \in Seq(Symbol) /\ call \in Seq(Symbol)
    BY OutTypes
  <2>2. a \in Seq(Symbol) /\ b \in Seq(Symbol) /\ (out \o a) \o b = out \o call
    BY <2>1, Halves
  <2>3. out' = out \o a /\ queue' = b
    BY <1>1
  <2> HIDE DEF a, b
  <2>4. out \o a \in Seq(Symbol)
    BY <2>1, <2>2, ConcatProperties
  <2> QED
    BY <2>2, <2>3, <2>4
<1>3. ~mixed => Whole((out' \o queue') \o body)
  <2>1. ~mixed => Whole(((out \o queue) \o call) \o body)
    BY DEF OutOk, AllWhole
  <2>2. out \o queue = out
    BY <1>1, OutTypes, ConcatEmptySeq
  <2> QED
    BY <2>1, <2>2, <1>2
<1>4. CASE n = Len(call)
  <2>1. WriteComplete /\ Kept /\ UNCHANGED want
    BY <1>4 DEF SendWrites
  <2> QED
    BY <2>1, <1>1, <1>2, <1>3, CompleteKeeps
<1>5. CASE n # Len(call)
  <2>1. call' = <<>> /\ UNCHANGED <<post_state, body, due>>
    BY <1>5 DEF SendWrites
  <2>2. AllWhole'
    <3>1. (out' \o queue') \o call' = out' \o queue'
      <4>1. out' \o queue' \in Seq(Symbol)
        BY <1>2, ConcatProperties
      <4> QED
        BY <4>1, <2>1, ConcatEmptySeq
    <3>2. (((out \o queue) \o call) \o body)' = (out' \o queue') \o body
      BY <3>1, <2>1
    <3> QED
      BY <3>2, <1>1, <1>3 DEF AllWhole, Whole, Spoilt
  <2>3. {body', call', queue', out'} \subseteq Seq(Symbol)
    BY <1>1, <1>2, <2>1, OutTypes
  <2>4. HollowOk'
    BY <1>1 DEF HollowOk
  <2> QED
    BY <1>1, <2>1, <2>2, <2>3, <2>4 DEF OutOk
<1> QED
  BY <1>4, <1>5

(* A write that fails puts a byte that belongs to none in front. *)
LEMMA FailsKeeps ==
  ASSUME OutOk, SendFails
  PROVE  OutOk'
<1> DEFINE x == <<Stray>>
           rest == call \o body
<1>1. /\ queue = <<>> /\ hollow = {} /\ queue' = x \o call /\ call' = <<>>
      /\ want' = InsertAt(want, Len(out) + 1, Stray)
      /\ UNCHANGED <<post_state, body, hollow, due, sending, out, flv, tags, mixed, reused>>
  BY DEF SendFails, NothingQueued, Kept
<1>2. x \in Seq(Symbol) /\ rest \in Seq(Symbol)
  BY Marks, OutTypes, ConcatProperties
<1>3. queue' \in Seq(Symbol)
  BY <1>1, <1>2, OutTypes, ConcatProperties
<1>4. want' = (SubSeq(want, 1, Len(out)) \o x) \o SubSeq(want, Len(out) + 1, Len(want))
  <2>1. (Len(out) + 1) - 1 = Len(out)
    BY OutTypes
  <2> QED
    BY <1>1, <2>1 DEF InsertAt
<1> HIDE DEF rest
<1>6. AllWhole'
  <2> DEFINE s == out \o rest
             n == Len(out)
             u == (SubSeq(s, 1, n) \o x) \o SubSeq(s, n + 1, Len(s))
             v == (SubSeq(want, 1, n) \o x) \o SubSeq(want, n + 1, Len(want))
  <2> SUFFICES ASSUME ~mixed
               PROVE  v \in Seq(Symbol) /\ SameBut(((out \o queue') \o <<>>) \o body, v, Spoilt)
    BY <1>1, <1>4 DEF AllWhole, Whole, Spoilt
  <2>1. want \in Seq(Symbol) /\ SameBut(s, want, Spoilt)
    <3>1. Whole(((out \o queue) \o call) \o body)
      BY <1>1 DEF OutOk, AllWhole
    <3>2. out \o queue = out
      BY <1>1, OutTypes, ConcatEmptySeq
    <3>3. (out \o call) \o body = out \o (call \o body)
      <4>1. AreSeqs(out, call, body)
        BY OutTypes DEF AreSeqs
      <4>2. Associates(out, call, body)
        BY <4>1, Together
      <4> QED
        BY <4>2 DEF Associates
    <3> QED
      BY <3>1, <3>2, <3>3 DEF rest, Whole
  <2>2. u = (out \o x) \o rest
    BY <1>2, OutTypes, CutApart
  <2>5. v \in Seq(Symbol) /\ SameBut(u, v, Spoilt)
    <3>1. s \in Seq(Symbol) /\ n \in 0 .. Len(s) /\ Stray \in Symbol
      <4>1. s \in Seq(Symbol) /\ Len(s) = n + Len(rest) /\ Len(rest) \in Nat /\ n \in Nat
        BY <1>2, OutTypes, ConcatProperties, LenProperties
      <4> HIDE DEF s, n
      <4> QED
        BY <4>1, Marks
    <3> HIDE DEF s, n
    <3> QED
      BY <3>1, <2>1, SamePut
  <2>3. (out \o (x \o call)) \o body = (out \o x) \o rest
    <3>0. out \in Seq(Symbol) /\ x \in Seq(Symbol) /\ call \in Seq(Symbol)
      BY <1>2, OutTypes
    <3>1. (out \o x) \o call = out \o (x \o call)
      <4>1. AreSeqs(out, x, call)
        BY <3>0 DEF AreSeqs
      <4>2. Associates(out, x, call)
        BY <4>1, Together
      <4> QED
        BY <4>2 DEF Associates
    <3>2. out \o x \in Seq(Symbol)
      BY <1>2, OutTypes, ConcatProperties
    <3>3. ((out \o x) \o call) \o body = (out \o x) \o (call \o body)
      <4>1. AreSeqs(out \o x, call, body)
        BY <3>2, OutTypes DEF AreSeqs
      <4>2. Associates(out \o x, call, body)
        BY <4>1, Together
      <4> QED
        BY <4>2 DEF Associates
    <3> QED
      BY <3>1, <3>3 DEF rest
  <2>4. (out \o queue') \o <<>> = out \o queue'
    <3>1. out \o queue' \in Seq(Symbol)
      BY <1>3, OutTypes, ConcatProperties
    <3> QED
      BY <3>1, ConcatEmptySeq
  <2>6. ((out \o queue') \o <<>>) \o body = u
    BY <2>2, <2>3, <2>4, <1>1
  <2> HIDE DEF u, v
  <2> QED
    BY <2>5, <2>6
<1>7. {body', call', queue', out'} \subseteq Seq(Symbol)
  BY <1>1, <1>3, OutTypes
<1>8. HollowOk'
  BY <1>1 DEF HollowOk
<1> QED
  BY <1>1, <1>6, <1>7, <1>8 DEF OutOk


(* What writev takes is a part of what is queued, from its start. *)
LEMMA TakenFromQueue ==
  ASSUME OutOk, NEW n \in 1 .. Len(queue), OnWrite(n)
  PROVE  /\ out' \in Seq(Symbol) /\ queue' \in Seq(Symbol)
         /\ Len(out') = Len(out) + n /\ Len(queue') = Len(queue) - n
         /\ out' \o queue' = out \o queue
         /\ hollow' \subseteq 0 .. Len(queue')
         /\ hollow' # {} => flv = "on"
         /\ Len(queue') \in hollow' =>
              /\ Len(out') + Len(queue') > 0
              /\ (out' \o queue')[Len(out') + Len(queue')] = <<"tag", tags>>
<1> DEFINE a == SubSeq(queue, 1, n)
<1>1. /\ out' = out \o a /\ queue' = SubSeq(queue, n + 1, Len(queue))
      /\ hollow' = {p - n : p \in {q \in hollow : q >= n}}
  BY DEF OnWrite, erased
<1>2. /\ out \in Seq(Symbol) /\ queue \in Seq(Symbol)
      /\ Len(out) \in Nat /\ Len(queue) \in Nat /\ n \in Nat
  BY OutTypes
<1>3. /\ a \in Seq(Symbol) /\ Len(a) = n
      /\ queue' \in Seq(Symbol) /\ Len(queue') = Len(queue) - n
      /\ out' \o queue' = out \o queue
  <2> DEFINE b == SubSeq(queue, n + 1, Len(queue))
  <2>1. /\ a \in Seq(Symbol) /\ Len(a) = n /\ b \in Seq(Symbol) /\ Len(b) = Len(queue) - n
        /\ (out \o a) \o b = out \o queue
    BY <1>2, Halves
  <2>2. out' = out \o a /\ queue' = b
    BY <1>1
  <2> HIDE DEF a, b
  <2> QED
    BY <2>1, <2>2
<1> HIDE DEF a
<1>4. out' \in Seq(Symbol) /\ Len(out') = Len(out) + n
  BY <1>1, <1>2, <1>3, ConcatProperties
<1>5. /\ hollow \subseteq 0 .. Len(queue) /\ (hollow # {} => flv = "on")
      /\ Len(queue) \in hollow => /\ Len(out) + Len(queue) > 0
                                 /\ (out \o queue)[Len(out) + Len(queue)] = <<"tag", tags>>
  BY DEF OutOk, HollowOk
<1>6. ASSUME NEW r \in hollow'
      PROVE  r \in 0 .. Len(queue') /\ flv = "on" /\ (r = Len(queue') => Len(queue) \in hollow)
  <2>1. PICK p \in hollow : p >= n /\ r = p - n
    BY <1>1
  <2>2. p \in 0 .. Len(queue) /\ flv = "on"
    BY <1>5
  <2>3. r \in 0 .. Len(queue') /\ (r = Len(queue') => p = Len(queue))
    BY <2>1, <2>2, <1>2, <1>3
  <2> QED
    BY <2>2, <2>3
<1>7. Len(out') + Len(queue') = Len(out) + Len(queue)
  BY <1>2, <1>3, <1>4
<1>8. hollow' \subseteq 0 .. Len(queue') /\ (hollow' # {} => flv = "on")
  BY <1>6
<1>9. Len(queue') \in hollow' =>
        /\ Len(out') + Len(queue') > 0
        /\ (out' \o queue')[Len(out') + Len(queue')] = <<"tag", tags>>
  BY <1>3, <1>5, <1>6, <1>7
<1> QED
  BY <1>3, <1>4, <1>8, <1>9

(* writev is called until all is written, or for ever if what is left is   *)
(* the empty body of the last tag. *)
LEMMA OnWriteKeeps ==
  ASSUME OutOk, SpinOk, NEW n \in 1 .. Len(queue), OnWrite(n)
  PROVE  OutOk' /\ SpinOk'
<1>1. /\ call = <<>> /\ due = 0 /\ spin = "no" /\ UNCHANGED want /\ Kept
      /\ UNCHANGED <<flv, sending, tags, mixed, reused, parsing, closed>>
      /\ hollow' = erased(n)
      /\ spin' = (IF n = Len(queue) /\ erased(n) # {} THEN "write" ELSE spin)
  BY DEF OnWrite, Kept, Idle, Returned, inVars, parserVars
<1>2. /\ out' \in Seq(Symbol) /\ queue' \in Seq(Symbol)
      /\ Len(out') = Len(out) + n /\ Len(queue') = Len(queue) - n
      /\ out' \o queue' = out \o queue
      /\ hollow' \subseteq 0 .. Len(queue') /\ (hollow' # {} => flv = "on")
      /\ Len(queue') \in hollow' =>
           /\ Len(out') + Len(queue') > 0
           /\ (out' \o queue')[Len(out') + Len(queue')] = <<"tag", tags>>
  BY TakenFromQueue
<1>3. ~mixed => Whole((out' \o queue') \o body)
  <2>1. ~mixed => Whole(((out \o queue) \o call) \o body)
    BY DEF OutOk, AllWhole
  <2>2. (out \o queue) \o call = out \o queue
    BY <1>1, OutTypes, ConcatEmptySeq
  <2> QED
    BY <2>1, <2>2, <1>2
<1>4. CASE n = Len(queue) /\ erased(n) = {}
  <2>1. WriteComplete /\ hollow' = {} /\ spin' = "no"
    BY <1>1, <1>4 DEF OnWrite
  <2>2. OutOk'
    BY <2>1, <1>1, <1>2, <1>3, CompleteKeeps
  <2> QED
    BY <2>1, <2>2 DEF SpinOk, ParserSpinsOnlyOnCut, WriterSpinsOnlyOnEmpty
<1>5. CASE ~ (n = Len(queue) /\ erased(n) = {})
  <2>1. UNCHANGED <<post_state, body, call, due>>
    BY <1>5 DEF OnWrite
  <2>2. AllWhole'
    <3>1. out' \o queue' \in Seq(Symbol)
      BY <1>2, ConcatProperties
    <3>2. (((out \o queue) \o call) \o body)' = (out' \o queue') \o body
      BY <3>1, <2>1, <1>1, ConcatEmptySeq
    <3> QED
      BY <3>2, <1>1, <1>3 DEF AllWhole, Whole, Spoilt
  <2>3. {body', call', queue', out'} \subseteq Seq(Symbol)
    BY <1>1, <1>2, <2>1, OutTypes
  <2>4. OutOk'
    <3>1. HollowOk'
      BY <1>1, <1>2 DEF HollowOk
    <3> QED
      BY <1>1, <2>1, <2>2, <2>3, <3>1 DEF OutOk
  <2>5. WriterSpinsOnlyOnEmpty'
    <3> SUFFICES ASSUME spin' = "write"
                 PROVE  /\ flv' = "on" /\ queue' = <<>> /\ hollow' = {0}
                        /\ Last(out') = <<"tag", tags'>>
      BY DEF WriterSpinsOnlyOnEmpty
    <3>1. n = Len(queue) /\ hollow' # {}
      BY <1>1
    <3>2. Len(queue') = 0
      BY <3>1, <1>2, OutTypes
    <3>3. queue' = <<>>
      BY <3>2, <1>2, EmptySeq
    <3>4. hollow' = {0}
      <4>1. \A r \in hollow' : r \in 0 .. 0
        BY <3>2, <1>2
      <4>2. \A r \in hollow' : r = 0
        BY <4>1
      <4> QED
        BY <3>1, <4>2, Zenon
    <3>5. flv' = "on"
      BY <3>4, <1>1, <1>2
    <3>6. out' \o queue' = out'
      BY <3>3, <1>2, ConcatEmptySeq
    <3>7. (out' \o queue')[Len(out') + 0] = <<"tag", tags>>
      BY <3>2, <3>4, <1>2
    <3>8. Len(out') + 0 = Len(out')
      BY <1>2, LenProperties
    <3>9. Last(out') = <<"tag", tags'>>
      BY <3>6, <3>7, <3>8, <1>1 DEF Last
    <3> QED
      BY <3>3, <3>4, <3>5, <3>9
  <2>6. spin' \in {"no", "write"} /\ call' = <<>> /\ due' = 0
    BY <1>1, <2>1
  <2> QED
    BY <2>4, <2>5, <2>6 DEF SpinOk, ParserSpinsOnlyOnCut
<1> QED
  BY <1>4, <1>5

(* What is left of the buffers that FlvContext no longer holds, and what is *)
(* built over: the same number of symbols, and only its own are others.     *)
LEMMA StillQueued ==
  ASSUME OutOk, NEW q \in Unheld(queue), NEW next \in Symbol
  PROVE  /\ q \in Seq(Symbol) /\ Len(q) = Len(queue)
         /\ \A i \in 1 .. Len(queue) : q[i] = queue[i] \/ queue[i][1] = "frame"
         /\ Overwritten(q, next) \in Seq(Symbol) /\ Len(Overwritten(q, next)) = Len(queue)
         /\ \A i \in 1 .. Len(queue) :
              Overwritten(q, next)[i] = queue[i] \/ queue[i][1] \in {"flv", "tag", "frame"}
<1> DEFINE r == Overwritten(q, next)
           n == Len(queue)
           gone == <<"freed", 0>>
<1>1. /\ queue \in Seq(Symbol) /\ n \in Nat /\ DOMAIN queue = 1 .. n
      /\ \A i \in 1 .. n : queue[i] \in Symbol
  BY OutTypes, LenProperties
<1>2. gone \in Symbol
  BY DEF Symbol
<1>3. q = queue \/ q = [i \in 1 .. n |-> IF queue[i][1] = "frame" THEN gone ELSE queue[i]]
  BY <1>1 DEF Unheld
<1> HIDE DEF n, gone
<1>4. /\ q \in [1 .. n -> Symbol]
      /\ \A i \in 1 .. n : q[i] = queue[i] \/ queue[i][1] = "frame"
  <2>1. CASE q = queue
    BY <2>1, <1>1 DEF n
  <2>2. CASE q = [i \in 1 .. n |-> IF queue[i][1] = "frame" THEN gone ELSE queue[i]]
    BY <2>2, <1>1, <1>2
  <2> QED
    BY <2>1, <2>2, <1>3
<1>5. q \in Seq(Symbol) /\ Len(q) = n /\ DOMAIN q = 1 .. n
  BY <1>1, <1>4
<1>6. r = [i \in 1 .. n |-> IF q[i][1] \in {"flv", "tag"} THEN next ELSE q[i]]
  BY <1>5 DEF Overwritten
<1> HIDE DEF r
<1>7. r \in [1 .. n -> Symbol]
  BY <1>4, <1>6
<1>8. r \in Seq(Symbol) /\ Len(r) = n
  BY <1>1, <1>7
<1>9. ASSUME NEW i \in 1 .. n
      PROVE  r[i] = queue[i] \/ queue[i][1] \in {"flv", "tag", "frame"}
  BY <1>4, <1>6
<1> QED
  BY <1>4, <1>5, <1>8, <1>9 DEF n, r

(* Then all is still what is wanted, but for those symbols. *)
LEMMA SpoiltOnly ==
  ASSUME OutOk, ~mixed, call = <<>>, NEW r \in Seq(Symbol), Len(r) = Len(queue),
         \A i \in 1 .. Len(queue) : r[i] = queue[i] \/ queue[i][1] \in {"flv", "tag", "frame"},
         reused' = (reused \/ FlvQueued)
  PROVE  want \in Seq(Symbol) /\ SameBut((out \o r) \o body, want, Spoilt')
<1> DEFINE a == out \o queue
           b == out \o r
           s == a \o body
           u == b \o body
           own == {"flv", "tag", "frame"}
           m == Len(out)
           n == m + Len(queue)
<1>1. want \in Seq(Symbol) /\ SameBut(s, want, Spoilt)
  <2>1. Whole(((out \o queue) \o <<>>) \o body)
    BY DEF OutOk, AllWhole
  <2> QED
    BY <2>1, OutTypes, ConcatEmptySeq DEF Whole
<1>2. /\ a \in Seq(Symbol) /\ b \in Seq(Symbol) /\ Len(a) = n /\ Len(b) = n
      /\ m \in Nat /\ n \in Nat /\ Len(queue) \in Nat
      /\ \A i \in 1 .. n : a[i] = IF i <= m THEN out[i] ELSE queue[i - m]
      /\ \A i \in 1 .. n : b[i] = IF i <= m THEN out[i] ELSE r[i - m]
  <2>1. out \in Seq(Symbol) /\ queue \in Seq(Symbol) /\ m \in Nat /\ Len(queue) \in Nat
    BY OutTypes
  <2>2. IsConcat(out, queue, a) /\ IsConcat(out, r, b)
    BY <2>1, Concatenates
  <2> HIDE DEF a, b
  <2> QED
    BY <2>1, <2>2 DEF IsConcat
<1>3. Spoilt \subseteq own /\ Spoilt \subseteq Spoilt' /\ (FlvQueued => Spoilt' = own)
  <2>1. (reused => reused') /\ (FlvQueued => reused')
    OBVIOUS
  <2>2. Spoilt = (IF reused THEN own ELSE {}) /\ Spoilt' = (IF reused' THEN own ELSE {})
    BY DEF Spoilt
  <2> HIDE DEF own
  <2> QED
    BY <2>1, <2>2
<1>4. \A i \in 1 .. Len(queue) : queue[i][1] \in own => FlvQueued
  <2>1. DOMAIN queue = 1 .. Len(queue)
    BY OutTypes, LenProperties
  <2> QED
    BY <2>1 DEF FlvQueued
<1>5. \A i \in 1 .. Len(queue) : r[i] = queue[i] \/ queue[i][1] \in own
  OBVIOUS
<1> HIDE DEF a, b, own, m, n
<1>6. /\ Len(s) = n + Len(body) /\ Len(u) = n + Len(body) /\ Len(body) \in Nat
      /\ \A i \in 1 .. n + Len(body) : s[i] = IF i <= n THEN a[i] ELSE body[i - n]
      /\ \A i \in 1 .. n + Len(body) : u[i] = IF i <= n THEN b[i] ELSE body[i - n]
  <2>1. body \in Seq(Symbol) /\ Len(body) \in Nat
    BY OutTypes, LenProperties
  <2>2. a \in Seq(Symbol) /\ b \in Seq(Symbol)
    BY <1>2
  <2>3. IsConcat(a, body, s) /\ IsConcat(b, body, u)
    BY <2>1, <2>2, Concatenates
  <2> HIDE DEF s, u
  <2> QED
    BY <1>2, <2>1, <2>3 DEF IsConcat
<1> HIDE DEF s, u
<1>7. ASSUME NEW i \in 1 .. n
      PROVE  b[i] = a[i] \/ (a[i][1] \in own /\ FlvQueued)
  <2>1. CASE i <= m
    BY <2>1, <1>2
  <2>2. CASE ~ (i <= m)
    <3> DEFINE j == i - m
    <3>1. j \in 1 .. Len(queue) /\ a[i] = queue[j] /\ b[i] = r[j]
      BY <2>2, <1>2 DEF n
    <3> HIDE DEF j
    <3> QED
      BY <3>1, <1>4, <1>5
  <2> QED
    BY <2>1, <2>2
<1>8. ASSUME NEW i \in 1 .. Len(u)
      PROVE  u[i] = want[i] \/ want[i][1] \in Spoilt'
  <2>1. i \in 1 .. n + Len(body) /\ i \in 1 .. Len(s)
    BY <1>6
  <2>2. s[i] = want[i] \/ want[i][1] \in Spoilt
    BY <2>1, <1>1 DEF SameBut
  <2>3. u[i] = s[i] \/ (s[i][1] \in own /\ FlvQueued)
    <3>1. CASE i <= n
      <4>1. i \in 1 .. n /\ u[i] = b[i] /\ s[i] = a[i]
        BY <3>1, <2>1, <1>2, <1>6
      <4> QED
        BY <4>1, <1>7
    <3>2. CASE ~ (i <= n)
      BY <3>2, <2>1, <1>6
    <3> QED
      BY <3>1, <3>2
  <2> QED
    BY <2>2, <2>3, <1>3
<1>9. Len(u) = Len(want)
  BY <1>1, <1>6 DEF SameBut
<1> QED
  BY <1>1, <1>8, <1>9 DEF SameBut, u, b

(* One more place. *)
LEMMA OneFurther ==
  ASSUME NEW n \in Nat, NEW h, h \subseteq 0 .. n
  PROVE  h \cup {n + 1} \subseteq 0 .. n + 1
<1>1. SUFFICES ASSUME NEW x \in h \cup {n + 1} PROVE x \in 0 .. n + 1
  OBVIOUS
<1>2. CASE x \in h
  <2>1. x \in 0 .. n
    BY <1>2
  <2> QED
    BY <2>1
<1>3. CASE x = n + 1
  BY <1>3
<1> QED
  BY <1>1, <1>2, <1>3

(* A list of FLV tags goes behind what is queued.  Its empty buffer is     *)
(* behind all others; other lists have none at their end. *)
LEMMA PostKeeps ==
  ASSUME OutOk, NEW q \in Unheld(queue), NEW list \in Lists, Post(q, list),
         call = <<>>, flv # "none", due' \in Nat
  PROVE  OutOk'
<1> DEFINE tag == <<"tag", tags + 1>>
           r == Overwritten(q, list[1])
<1>1. /\ call' = call /\ body' = body
      /\ queue' = r \o list /\ want' = want \o list
      /\ hollow' = (IF Len(list) = 1 THEN hollow \cup {Len(queue) + 1} ELSE hollow)
      /\ flv' = "on" /\ sending' = TRUE
      /\ tags' = (IF flv = "on" THEN tags + 1 ELSE tags)
      /\ mixed' = (mixed \/ post_state = "header")
      /\ reused' = (reused \/ FlvQueued)
      /\ UNCHANGED <<post_state, out>>
  BY DEF Post
<1>2. /\ tags \in Nat /\ {sending, mixed, reused} \subseteq BOOLEAN
      /\ out \in Seq(Symbol) /\ queue \in Seq(Symbol) /\ body \in Seq(Symbol)
      /\ Len(out) \in Nat /\ Len(queue) \in Nat /\ <<>> \in Seq(Symbol)
      /\ post_state \in {"init", "http", "header", "body"}
      /\ (body # <<>> <=> post_state = "header")
      /\ hollow \subseteq 0 .. Len(queue)
  BY <1>1, OutTypes DEF OutOk, HollowOk
<1>3. /\ list \in Seq(Symbol) /\ Len(list) \in {1, 2} /\ list[1] \in Symbol
      /\ Len(list) = 1 => flv = "on" /\ list[1] = tag
  <2>1. /\ tag \in Symbol /\ <<"frame", tags + 1>> \in Symbol
        /\ <<"http", 0>> \in Symbol /\ <<"flv", 0>> \in Symbol
    BY <1>2 DEF Symbol
  <2>2. \/ list = <<<<"http", 0>>, <<"flv", 0>>>> /\ flv = "new"
        \/ list = <<tag>> /\ flv # "new"
        \/ list = <<tag, <<"frame", tags + 1>>>>
    BY DEF Lists
  <2>3. /\ list \in Seq(Symbol) /\ Len(list) \in {1, 2} /\ list[1] \in Symbol
        /\ (Len(list) = 1 => list[1] = tag)
    <3> HIDE DEF tag
    <3>1. CASE list = <<<<"http", 0>>, <<"flv", 0>>>>
      BY <2>1, <3>1
    <3>2. CASE list = <<tag>>
      BY <2>1, <3>2
    <3>3. CASE list = <<tag, <<"frame", tags + 1>>>>
      BY <2>1, <3>3
    <3> QED
      BY <2>2, <3>1, <3>2, <3>3
  <2>4. Len(list) = 1 => flv # "new"
    <3> HIDE DEF tag
    <3>1. list = <<<<"http", 0>>, <<"flv", 0>>>> => Len(list) = 2
      OBVIOUS
    <3>2. list = <<tag, <<"frame", tags + 1>>>> => Len(list) = 2
      OBVIOUS
    <3>3. Len(list) # 2 => flv # "new"
      BY <2>2, <3>1, <3>2, Zenon
    <3> QED
      BY <3>3
  <2>5. flv \in {"new", "on"}
    BY DEF OutOk
  <2> QED
    BY <2>3, <2>4, <2>5
<1>4. /\ r \in Seq(Symbol) /\ Len(r) = Len(queue)
      /\ \A i \in 1 .. Len(queue) : r[i] = queue[i] \/ queue[i][1] \in {"flv", "tag", "frame"}
  BY <1>3, StillQueued
<1> HIDE DEF tag, r
<1>5. /\ queue' \in Seq(Symbol) /\ Len(queue') = Len(queue) + Len(list)
      /\ (out \o r) \o list = out \o queue'
  <2>1. r \o list \in Seq(Symbol) /\ Len(r \o list) = Len(r) + Len(list)
    BY <1>3, <1>4, ConcatProperties
  <2>2. (out \o r) \o list = out \o (r \o list)
    <3>1. AreSeqs(out, r, list)
      BY <1>2, <1>3, <1>4 DEF AreSeqs
    <3>2. Associates(out, r, list)
      BY <3>1, Together
    <3> QED
      BY <3>2 DEF Associates
  <2> QED
    BY <2>1, <2>2, <1>1, <1>4
<1>6. HollowOk'
  <2>1. CASE Len(list) = 1
    <3> DEFINE s == out \o r
               i == Len(out) + (Len(queue) + 1)
    <3>1. s \in Seq(Symbol) /\ Len(s) = Len(out) + Len(queue)
      <4>1. s \in Seq(Symbol) /\ Len(s) = Len(out) + Len(r)
        BY <1>2, <1>4, ConcatProperties
      <4> HIDE DEF s
      <4> QED
        BY <1>4, <4>1
    <3>2. i \in 1 .. Len(s) + Len(list) /\ ~ (i <= Len(s)) /\ i - Len(s) = 1 /\ i > 0
      BY <3>1, <2>1, <1>2
    <3> HIDE DEF s, i
    <3>3. (s \o list)[i] = list[i - Len(s)]
      BY <3>1, <3>2, <1>3, ConcatProperties
    <3>4. (out \o queue')[i] = <<"tag", tags + 1>> /\ tags' = tags + 1
      BY <3>2, <3>3, <2>1, <1>1, <1>3, <1>5 DEF s, tag
    <3>5. Len(out') + Len(queue') = i /\ hollow' \subseteq 0 .. Len(queue')
      <4>1. hollow' = hollow \cup {Len(queue) + 1} /\ Len(queue') = Len(queue) + 1 /\ out' = out
        BY <2>1, <1>1, <1>5
      <4>2. Len(out') + Len(queue') = i
        BY <4>1, <1>2 DEF i
      <4>3. hollow \cup {Len(queue) + 1} \subseteq 0 .. Len(queue) + 1
        <5>1. hollow \subseteq 0 .. Len(queue) /\ Len(queue) \in Nat
          BY <1>2
        <5> QED
          BY <5>1, OneFurther
      <4>4. ASSUME NEW x \in hollow' PROVE x \in 0 .. Len(queue')
        <5>1. x \in hollow \cup {Len(queue) + 1}
          BY ONLY <4>1, <4>4
        <5>2. x \in 0 .. Len(queue) + 1
          BY ONLY <5>1, <4>3
        <5> QED
          BY <5>2, <4>1
      <4> QED
        BY <4>2, <4>4
    <3> QED
      BY <3>2, <3>4, <3>5, <1>1 DEF HollowOk
  <2>2. CASE Len(list) # 1
    <3>1. /\ hollow' = hollow /\ Len(queue') = Len(queue) + 2
      BY <2>2, <1>1, <1>3, <1>5
    <3>2. Len(queue') \notin hollow' /\ hollow' \subseteq 0 .. Len(queue')
      BY <3>1, <1>2
    <3> QED
      BY <3>2, <1>1 DEF HollowOk
  <2> QED
    BY <2>1, <2>2
<1>7. AllWhole'
  <2> SUFFICES ASSUME ~mixed' PROVE Whole(((out \o queue) \o call) \o body)'
    BY DEF AllWhole
  <2>1. ~mixed /\ body = <<>>
    BY <1>1, <1>2
  <2>3. out \o r \in Seq(Symbol)
    BY <1>2, <1>4, ConcatProperties
  <2>2. want \in Seq(Symbol) /\ SameBut(out \o r, want, Spoilt')
    <3>1. want \in Seq(Symbol) /\ SameBut((out \o r) \o body, want, Spoilt')
      BY <2>1, <1>1, <1>4, SpoiltOnly
    <3> QED
      BY <2>1, <2>3, <3>1, ConcatEmptySeq
  <2>4. want' \in Seq(Symbol) /\ SameBut(out \o queue', want', Spoilt')
    BY <2>2, <2>3, <1>1, <1>3, <1>5, SameAppend
  <2>5. (((out \o queue) \o call) \o body)' = out \o queue'
    <3>1. out \o queue' \in Seq(Symbol)
      BY <1>2, <1>5, ConcatProperties
    <3>2. ((out \o queue') \o <<>>) \o <<>> = out \o queue'
      BY <3>1, ConcatEmptySeq
    <3> QED
      BY <3>2, <2>1, <1>1
  <2> QED
    BY <2>4, <2>5 DEF Whole
<1>8. {body', call', queue', out'} \subseteq Seq(Symbol)
  BY <1>1, <1>2, <1>5
<1>9. /\ tags' \in Nat /\ {sending', mixed', reused'} \subseteq BOOLEAN
      /\ (body' # <<>> <=> post_state' = "header")
  BY <1>1, <1>2 DEF FlvQueued
<1> QED
  BY <1>1, <1>2, <1>6, <1>7, <1>8, <1>9 DEF OutOk

(* FlvContext completes, and posts the next list or not. *)
LEMMA FlvCompleteKeeps ==
  ASSUME OutOk, FlvWriteComplete, flv # "none"
  PROVE  OutOk' /\ UNCHANGED inVars /\ UNCHANGED closed /\ spin' = spin
<1>1. due > 0 /\ call = <<>> /\ due' = due - 1 /\ due \in Nat
  BY DEF FlvWriteComplete, OutOk
<1>2. due' \in Nat
  BY <1>1
<1>3. PICK q \in Unheld(queue) :
        \/ \E list \in Lists : Post(q, list)
        \/ /\ queue' = q /\ sending' = FALSE /\ reused' = (reused \/ FlvQueued)
           /\ UNCHANGED <<inVars, post_state, body, call, hollow, flv, tags, out, want,
                          mixed, closed, spin>>
  BY DEF FlvWriteComplete
<1>4. CASE \E list \in Lists : Post(q, list)
  <2>1. PICK list \in Lists : Post(q, list)
    BY <1>4
  <2>2. OutOk'
    BY <2>1, <1>1, <1>2, PostKeeps
  <2> QED
    BY <2>1, <2>2 DEF Post
<1>5. CASE /\ queue' = q /\ sending' = FALSE /\ reused' = (reused \/ FlvQueued)
           /\ UNCHANGED <<inVars, post_state, body, call, hollow, flv, tags, out, want,
                          mixed, closed, spin>>
  <2>1. /\ q \in Seq(Symbol) /\ Len(q) = Len(queue)
        /\ \A i \in 1 .. Len(queue) : q[i] = queue[i] \/ queue[i][1] = "frame"
    BY Marks, StillQueued
  <2>2. HollowOk'
    <3>1. HollowOk
      BY DEF OutOk
    <3>2. Len(queue) \in hollow => (out \o q)[Len(out) + Len(queue)] = <<"tag", tags>>
      <4> SUFFICES ASSUME Len(queue) \in hollow
                   PROVE  (out \o q)[Len(out) + Len(queue)] = <<"tag", tags>>
        OBVIOUS
      <4> DEFINE i == Len(out) + Len(queue)
      <4>1. (out \o queue)[i] = <<"tag", tags>> /\ i > 0
        BY <3>1 DEF HollowOk
      <4>2. /\ \A k \in 1 .. i : (out \o queue)[k] = IF k <= Len(out) THEN out[k] ELSE queue[k - Len(out)]
            /\ \A k \in 1 .. i : (out \o q)[k] = IF k <= Len(out) THEN out[k] ELSE q[k - Len(out)]
        BY <2>1, OutTypes, ConcatProperties
      <4>3. i \in 1 .. i /\ Len(out) \in Nat /\ Len(queue) \in Nat
            /\ (~ (i <= Len(out)) => i - Len(out) \in 1 .. Len(queue))
        BY <4>1, OutTypes
      <4> HIDE DEF i
      <4>4. CASE i <= Len(out)
        BY <4>1, <4>2, <4>3, <4>4 DEF i
      <4>5. CASE ~ (i <= Len(out))
        <5>1. queue[i - Len(out)] = <<"tag", tags>> /\ i - Len(out) \in 1 .. Len(queue)
          BY <4>1, <4>2, <4>3, <4>5
        <5>2. q[i - Len(out)] = <<"tag", tags>>
          BY <5>1, <2>1
        <5> QED
          BY <5>2, <4>2, <4>3, <4>5 DEF i
      <4> QED
        BY <4>4, <4>5
    <3> QED
      BY <3>1, <3>2, <2>1, <1>5 DEF HollowOk
  <2>3. AllWhole'
    <3> SUFFICES ASSUME ~mixed PROVE Whole(((out \o queue) \o call) \o body)'
      BY <1>5 DEF AllWhole
    <3>1. (((out \o queue) \o call) \o body)' = (out \o q) \o body
      <4>1. out \o q \in Seq(Symbol)
        BY <2>1, OutTypes, ConcatProperties
      <4> QED
        BY <4>1, <1>1, <1>5, ConcatEmptySeq
    <3>2. want \in Seq(Symbol) /\ SameBut((out \o q) \o body, want, Spoilt')
      <4>1. \A i \in 1 .. Len(queue) : q[i] = queue[i] \/ queue[i][1] \in {"flv", "tag", "frame"}
        BY <2>1
      <4> QED
        BY <4>1, <2>1, <1>1, <1>5, SpoiltOnly
    <3> QED
      BY <3>1, <3>2, <1>5 DEF Whole
  <2>4. {body', call', queue', out'} \subseteq Seq(Symbol)
    BY <2>1, <1>5, OutTypes
  <2>5. {sending', mixed', reused'} \subseteq BOOLEAN /\ (due' > 0 => flv' # "none")
    BY <1>5 DEF OutOk, FlvQueued
  <2> QED
    BY <1>2, <1>5, <2>2, <2>3, <2>4, <2>5 DEF OutOk
<1> QED
  BY <1>3, <1>4, <1>5


(* The output stays as it is. *)
LEMMA OutStays ==
  ASSUME OutOk, UNCHANGED outVars
  PROVE  OutOk'
BY DEF OutOk, HollowOk, AllWhole, Whole, Spoilt, outVars

(* A loop that goes on is not one that goes round for ever. *)
LEMMA GoesOn ==
  ASSUME spin' = "no"
  PROVE  SpinOk'
BY DEF SpinOk, ParserSpinsOnlyOnCut, WriterSpinsOnlyOnEmpty

-----------------------------------------------------------------------------
(* The steps that parse nothing.                                            *)

(* Bytes that arrive, the end of the loop and the end of the connection    *)
(* leave what was parsed as it is. *)
LEMMA QuietKeeps ==
  ASSUME SentOk, ParserOk, FlvOk, UNCHANGED askVars, UNCHANGED flv,
         UNCHANGED <<taken, state, req, left, chunk, is_chunked, delivered>>,
         read' \in Nat, taken <= read', read' <= Len(stream),
         parsing' \in BOOLEAN, closed' \in BOOLEAN, closed => closed'
  PROVE  SentOk' /\ ParserOk' /\ FlvOk'
<1>1. /\ SentOk' /\ (Plain' <=> Plain) /\ \A j : Call(j)' = Call(j)
      /\ msgs' = msgs /\ stream' = stream /\ begin' = begin
  BY AskedStays DEF askVars
<1>2. /\ taken' = taken /\ state' = state /\ req' = req /\ left' = left /\ chunk' = chunk
      /\ is_chunked' = is_chunked /\ delivered' = delivered /\ flv' = flv
  OBVIOUS
<1>3. ~is_chunked => InRequests'
  BY <1>1, <1>2 DEF ParserOk, InRequests
<1>4. is_chunked => InChunks'
  BY <1>1, <1>2 DEF ParserOk, InChunks
<1>5. is_chunked /\ Plain => InLastRequest'
  BY <1>1, <1>2 DEF ParserOk, InLastRequest
<1>6. ParserOk'
  BY <1>1, <1>2, <1>3, <1>4, <1>5 DEF ParserOk
<1>7. FlvOk'
  BY <1>1, <1>2 DEF FlvOk
<1> QED
  BY <1>1, <1>6, <1>7

(* Some bytes arrive. *)
LEMMA OnReadKeeps ==
  ASSUME HIInv, NEW n \in 1 .. Len(stream) - read, OnRead(n)
  PROVE  HIInv'
<1>1. /\ read' = read + n /\ parsing' = TRUE
      /\ UNCHANGED askVars /\ UNCHANGED outVars /\ UNCHANGED flv
      /\ UNCHANGED <<taken, state, req, left, chunk, is_chunked, delivered>>
      /\ closed' = closed /\ spin' = "no"
  BY DEF OnRead, Idle, Returned, outVars
<1>2. read \in Nat /\ taken \in Nat /\ taken <= read /\ Len(stream) \in Nat /\ closed \in BOOLEAN
  BY LenProperties DEF HIInv, ParserOk, SentOk
<1>3. read' \in Nat /\ taken <= read' /\ read' <= Len(stream)
  BY <1>1, <1>2
<1>4. SentOk' /\ ParserOk' /\ FlvOk'
  BY <1>1, <1>2, <1>3, QuietKeeps DEF HIInv
<1> QED
  BY <1>1, <1>4, OutStays, GoesOn DEF HIInv

(* The parser is left with one byte or none. *)
LEMMA ParseEndsKeeps ==
  ASSUME HIInv, ParseEnds
  PROVE  HIInv'
<1>1. /\ read' = read /\ parsing' = FALSE
      /\ UNCHANGED askVars /\ UNCHANGED outVars /\ UNCHANGED flv
      /\ UNCHANGED <<taken, state, req, left, chunk, is_chunked, delivered>>
      /\ closed' = closed /\ spin' = "no"
  BY DEF ParseEnds, Returned, outVars
<1>2. read \in Nat /\ taken <= read /\ read <= Len(stream) /\ closed \in BOOLEAN
  BY DEF HIInv, ParserOk
<1>3. SentOk' /\ ParserOk' /\ FlvOk'
  BY <1>1, <1>2, QuietKeeps DEF HIInv
<1> QED
  BY <1>1, <1>3, OutStays, GoesOn DEF HIInv

(* The connection is closed. *)
LEMMA OnCloseKeeps ==
  ASSUME HIInv, OnClose
  PROVE  HIInv'
<1>1. /\ read' = read /\ parsing' = parsing
      /\ UNCHANGED askVars /\ UNCHANGED outVars /\ UNCHANGED flv
      /\ UNCHANGED <<taken, state, req, left, chunk, is_chunked, delivered>>
      /\ closed' = TRUE /\ spin' = "no"
  BY DEF OnClose, Idle, Returned, outVars, inVars, parserVars
<1>2. read \in Nat /\ taken <= read /\ read <= Len(stream) /\ parsing \in BOOLEAN
  BY DEF HIInv, ParserOk
<1>3. SentOk' /\ ParserOk' /\ FlvOk'
  BY <1>1, <1>2, QuietKeeps DEF HIInv
<1> QED
  BY <1>1, <1>3, OutStays, GoesOn DEF HIInv

(* One more request is in the stream, behind the others. *)
LEMMA RequestSent ==
  ASSUME SentOk, NEW k \in Kinds, Request(k)
  PROVE  /\ SentOk' /\ Len(msgs') = Len(msgs) + 1 /\ Len(msgs) \in Nat
         /\ \A i \in 1 .. Len(msgs) : msgs'[i] = msgs[i]
         /\ msgs'[Len(msgs) + 1] = k
         /\ \A i \in 1 .. Len(msgs) + 1 : begin'[i] = begin[i]
         /\ Len(stream) <= Len(stream') /\ Len(stream) \in Nat /\ Len(stream') \in Nat
<1> DEFINE n == Len(msgs)
           m == Len(stream)
           bytes == Bytes(k, n + 1)
<1>1. /\ msgs' = Append(msgs, k) /\ stream' = stream \o bytes
      /\ begin' = Append(begin, m + Len(bytes))
  BY DEF Request
<1>2. /\ n \in Nat /\ m \in Nat /\ n + 1 \in Nat /\ begin[n + 1] = m /\ Len(begin) = n + 1
      /\ msgs \in Seq(Kinds) /\ stream \in Seq(Symbol) /\ begin \in Seq(Nat)
  BY LenProperties DEF SentOk
<1>3. /\ bytes \in Seq(Symbol) /\ Len(bytes) \in Nat
      /\ \A j \in 1 .. Len(bytes) : bytes[j][1] = "size" => bytes[j][2] \in {0, 3}
  <2>0. bytes \in Seq(Symbol) /\ Shaped(bytes, k, n + 1)
    BY <1>2, BytesShape
  <2>1. /\ bytes \in Seq(Symbol)
        /\ Len(bytes) = (IF k = "post" THEN 8 ELSE IF k = "chunked" THEN 18 ELSE 5)
    BY <2>0 DEF Shaped
  <2>2. ASSUME NEW j \in 1 .. Len(bytes)
        PROVE  bytes[j][1] = "size" => bytes[j][2] \in {0, 3}
    <3>1. /\ bytes[1] = <<k, n + 1>> /\ bytes[2] = CR /\ bytes[3] = LF
          /\ bytes[4] = CR /\ bytes[5] = LF
          /\ k = "post" => /\ bytes[6] = <<"data", n + 1>> /\ bytes[7] = <<"more", n + 1>>
                           /\ bytes[8] = <<"last", n + 1>>
          /\ k = "chunked" =>
               /\ bytes[6] = <<"size", 3>> /\ bytes[7] = CR /\ bytes[8] = LF
               /\ bytes[9] = <<"data", n + 1>> /\ bytes[10] = <<"more", n + 1>>
               /\ bytes[11] = <<"last", n + 1>>
               /\ bytes[12] = CR /\ bytes[13] = LF
               /\ bytes[14] = <<"size", 0>> /\ bytes[15] = CR /\ bytes[16] = LF
               /\ bytes[17] = CR /\ bytes[18] = LF
      <4> HIDE DEF bytes, n
      <4> QED
        BY <2>0 DEF Shaped
    <3>2. k # "size" /\ CR[1] = "cr" /\ LF[1] = "lf"
      BY HttpAssumption DEF CR, LF
    <3> HIDE DEF bytes, n, m
    <3>3. CASE j \in 1 .. 5
      BY <3>1, <3>2, <3>3
    <3>4. CASE j \in 6 .. 8 /\ k = "post"
      BY <3>1, <3>4
    <3>5. CASE j \in 6 .. 12 /\ k = "chunked"
      <4>1. \/ j = 6 \/ j = 7 \/ j = 8 \/ j = 9 \/ j = 10 \/ j = 11 \/ j = 12
        BY <3>5
      <4>2. CASE j = 6
        BY <3>1, <3>5, <4>2
      <4>3. CASE j \in {7, 8, 12}
        BY <3>1, <3>2, <3>5, <4>3
      <4>4. CASE j \in {9, 10, 11}
        BY <3>1, <3>5, <4>4
      <4> QED
        BY <4>1, <4>2, <4>3, <4>4
    <3>6. CASE j \in 13 .. 18 /\ k = "chunked"
      BY <3>1, <3>2, <3>6
    <3>7. /\ k = "post" => j \in 1 .. 8
          /\ k = "chunked" => j \in 1 .. 18
          /\ k \notin {"post", "chunked"} => j \in 1 .. 5
      BY <2>1
    <3>8. /\ \A q \in 1 .. 8 : q \in 1 .. 5 \/ q \in 6 .. 8
          /\ \A q \in 1 .. 18 : q \in 1 .. 5 \/ q \in 6 .. 12 \/ q \in 13 .. 18
      OBVIOUS
    <3> QED
      BY <3>3, <3>4, <3>5, <3>6, <3>7, <3>8
  <2> QED
    BY <2>1, <2>2, LenProperties
<1> HIDE DEF bytes, n, m
<1>4. /\ msgs' \in Seq(Kinds) /\ Len(msgs') = n + 1 /\ msgs'[n + 1] = k
      /\ \A i \in 1 .. n : msgs'[i] = msgs[i]
  BY <1>1, <1>2, AppendProperties DEF n
<1>5. /\ begin' \in Seq(Nat) /\ Len(begin') = n + 2
      /\ begin'[n + 2] = m + Len(bytes)
      /\ \A i \in 1 .. n + 1 : begin'[i] = begin[i]
  <2>1. m + Len(bytes) \in Nat
    BY <1>2, <1>3
  <2>2. /\ begin' \in Seq(Nat) /\ Len(begin') = Len(begin) + 1
        /\ begin'[Len(begin) + 1] = m + Len(bytes)
        /\ \A i \in 1 .. Len(begin) : begin'[i] = begin[i]
    BY <2>1, <1>1, <1>2, AppendProperties
  <2>3. Len(begin) + 1 = n + 2
    BY <1>2
  <2> QED
    BY <2>2, <2>3, <1>2
<1>6. /\ stream' \in Seq(Symbol) /\ Len(stream') = m + Len(bytes)
      /\ \A p \in 1 .. m : stream'[p] = stream[p]
      /\ \A j \in 1 .. Len(bytes) : stream'[m + j] = bytes[j]
  <2>1. /\ stream' \in Seq(Symbol) /\ Len(stream') = m + Len(bytes)
        /\ \A p \in 1 .. m + Len(bytes) :
             stream'[p] = IF p <= m THEN stream[p] ELSE bytes[p - m]
    BY <1>1, <1>2, <1>3, ConcatProperties DEF m
  <2>2. \A p \in 1 .. m : stream'[p] = stream[p]
    BY <2>1, <1>2, <1>3
  <2>3. ASSUME NEW j \in 1 .. Len(bytes) PROVE stream'[m + j] = bytes[j]
    <3>1. m + j \in 1 .. m + Len(bytes) /\ ~ (m + j <= m) /\ (m + j) - m = j
      BY <1>2, <1>3
    <3> QED
      BY <3>1, <2>1
  <2> QED
    BY <2>1, <2>2, <2>3
<1>7. ASSUME NEW i \in 1 .. n + 1
      PROVE  /\ begin'[i + 1] = begin'[i] + Len(Bytes(msgs'[i], i))
             /\ begin'[i + 1] <= Len(stream')
             /\ \A j \in 1 .. Len(Bytes(msgs'[i], i)) :
                  stream'[begin'[i] + j] = Bytes(msgs'[i], i)[j]
  <2>1. CASE i = n + 1
    <3>1. (n + 1) + 1 = n + 2 /\ Bytes(msgs'[i], i) = bytes /\ begin'[i] = m
      BY <2>1, <1>2, <1>4, <1>5 DEF bytes
    <3> QED
      BY <3>1, <2>1, <1>2, <1>3, <1>5, <1>6
  <2>2. CASE i # n + 1
    <3>1. i \in 1 .. n /\ i + 1 \in 1 .. n + 1
      BY <2>2, <1>2
    <3>2. begin'[i] = begin[i] /\ begin'[i + 1] = begin[i + 1] /\ msgs'[i] = msgs[i]
      BY <3>1, <1>2, <1>4, <1>5
    <3> DEFINE b == Bytes(msgs[i], i)
    <3>3. /\ begin[i + 1] = begin[i] + Len(b) /\ begin[i + 1] <= m
          /\ \A j \in 1 .. Len(b) : stream[begin[i] + j] = b[j]
      BY <3>1 DEF SentOk, n, m
    <3>4. begin[i] \in Nat /\ Len(b) \in Nat
      <4>1. msgs[i] \in Kinds /\ i \in Nat
        BY <3>1, <1>2 DEF n
      <4>2. b \in Seq(Symbol)
        BY <4>1, BytesShape
      <4>3. i \in 1 .. Len(begin) /\ begin \in Seq(Nat)
        BY <3>1, <1>2
      <4> HIDE DEF b
      <4>4. Len(b) \in Nat
        BY <4>2, LenProperties
      <4>5. begin[i] \in Nat
        BY ONLY <4>3, ElementOfSeq
      <4> QED
        BY <4>4, <4>5
    <3> HIDE DEF b
    <3>5. ASSUME NEW j \in 1 .. Len(b) PROVE stream'[begin[i] + j] = b[j]
      <4>1. begin[i] + j \in 1 .. m
        BY <3>3, <3>4, <1>2
      <4>2. stream'[begin[i] + j] = stream[begin[i] + j]
        BY <4>1, <1>6
      <4> QED
        BY <4>2, <3>3
    <3>6. m <= Len(stream')
      BY <1>2, <1>3, <1>6
    <3>7. begin[i + 1] <= Len(stream')
      BY <3>3, <3>4, <3>6, <1>2, <1>3, <1>6
    <3> QED
      BY <3>2, <3>3, <3>5, <3>7 DEF b
  <2> QED
    BY <2>1, <2>2
<1>8. ASSUME NEW p \in 1 .. Len(stream')
      PROVE  stream'[p][1] = "size" => stream'[p][2] \in {0, 3}
  <2>1. CASE p <= m
    <3>1. p \in 1 .. m /\ p \in 1 .. Len(stream)
      BY <2>1, <1>2 DEF m
    <3> QED
      BY <3>1, <1>6 DEF SentOk
  <2>2. CASE ~ (p <= m)
    <3>1. p - m \in 1 .. Len(bytes) /\ m + (p - m) = p
      BY <2>2, <1>2, <1>3, <1>6
    <3>2. stream'[p] = bytes[p - m]
      BY <3>1, <1>6
    <3> QED
      BY <3>1, <3>2, <1>3
  <2> QED
    BY <2>1, <2>2
<1>9. SentOk'
  <2>1. (n + 1) + 1 = n + 2
    BY <1>2
  <2> QED
    BY <2>1, <1>4, <1>5, <1>6, <1>7, <1>8 DEF SentOk
<1>10. m <= Len(stream') /\ Len(stream') \in Nat
  BY <1>2, <1>3, <1>6
<1> QED
  BY <1>2, <1>4, <1>5, <1>9, <1>10 DEF n, m


(* What was delivered stays right when more is asked. *)
LEMMA RequestKeeps ==
  ASSUME HIInv, NEW k \in Kinds, Request(k)
  PROVE  HIInv'
<1> DEFINE n == Len(msgs)
<1>1. /\ SentOk' /\ Len(msgs') = n + 1 /\ n \in Nat
      /\ \A i \in 1 .. n : msgs'[i] = msgs[i]
      /\ msgs'[n + 1] = k
      /\ \A i \in 1 .. n + 1 : begin'[i] = begin[i]
      /\ Len(stream) <= Len(stream') /\ Len(stream) \in Nat /\ Len(stream') \in Nat
  BY RequestSent DEF HIInv
<1>2. /\ UNCHANGED <<read, taken, parsing, state, req, left, chunk, is_chunked, delivered>>
      /\ UNCHANGED outVars /\ flv' = flv /\ closed' = closed /\ spin' = "no"
      /\ k = "flv" => \A i \in DOMAIN msgs : msgs[i] # "flv"
  BY DEF Request, Idle, Returned, parserVars, outVars
<1>3. DOMAIN msgs = 1 .. n /\ DOMAIN msgs' = 1 .. n + 1
  BY <1>1, LenProperties DEF HIInv, SentOk
<1>4. ASSUME NEW i \in 1 .. n PROVE Call(i)' = Call(i)
  <2>1. i \in DOMAIN msgs /\ i \in DOMAIN msgs' /\ msgs'[i] = msgs[i]
    BY <1>1, <1>3
  <2>2. i # Len(msgs) + 1 /\ i # Len(msgs') + 1
    BY <1>1
  <2> QED
    BY <2>1, <2>2 DEF Call
<1> HIDE DEF n
<1>5. ParserOk
  BY DEF HIInv
<1>6. ASSUME ~is_chunked PROVE InRequests'
  <2>1. InRequests
    BY <1>5, <1>6 DEF ParserOk
  <2>2. Len(delivered) \in Nat /\ Len(delivered) <= n
    BY <2>1, <1>5, LenProperties DEF ParserOk, InRequests, n
  <2>3. \A i \in 1 .. Len(delivered) : delivered'[i] = Call(i)' /\ msgs'[i] # "chunked"
    <3> SUFFICES ASSUME NEW i \in 1 .. Len(delivered)
                 PROVE  delivered'[i] = Call(i)' /\ msgs'[i] # "chunked"
      OBVIOUS
    <3>1. i \in 1 .. n
      BY <2>2, <1>1
    <3>2. delivered[i] = Call(i) /\ msgs[i] # "chunked"
      BY <2>1 DEF InRequests
    <3> QED
      BY <3>1, <3>2, <1>1, <1>2, <1>4
  <2>4. begin'[Len(delivered) + 1] = begin[Len(delivered) + 1]
    BY <2>2, <1>1
  <2>5. req \in 1 .. n => /\ msgs'[req] = msgs[req] /\ begin'[req] = begin[req]
                          /\ begin'[req + 1] = begin[req + 1]
    BY <1>1
  <2>6. req = Len(delivered) + 1 /\ req <= Len(msgs) => req \in 1 .. n
    BY <2>2, <1>1 DEF n
  <2>7. Len(delivered) <= Len(msgs') /\ (req <= Len(msgs) => req <= Len(msgs'))
    BY <2>2, <1>1, <1>5 DEF ParserOk, n
  <2>8. state \in {"headers", "complete"} => taken = begin'[Len(delivered) + 1] /\ left = 0
    BY <2>1, <2>4 DEF InRequests
  <2>9. state = "normal_body" =>
          /\ req = Len(delivered) + 1 /\ req <= Len(msgs') /\ msgs'[req] = "post"
          /\ left \in 1 .. 3 /\ taken = begin'[req] + (8 - left)
          /\ chunk = SubSeq(Data(req), 1, 3 - left)
    BY <2>1, <2>5, <2>6, <2>7 DEF InRequests
  <2>10. state = "error" =>
           /\ req = Len(delivered) + 1 /\ req <= Len(msgs') /\ msgs'[req] = "bad"
           /\ left = 0 /\ taken = begin'[req + 1] /\ closed
    BY <2>1, <2>5, <2>6, <2>7 DEF InRequests
  <2>11. state \in {"headers", "complete", "normal_body", "error"}
    BY <2>1 DEF InRequests
  <2> QED
    BY <2>3, <2>7, <2>8, <2>9, <2>10, <2>11, <1>2 DEF InRequests
<1>7. ASSUME is_chunked PROVE InChunks' /\ ~Plain'
  <2>1. InChunks
    BY <1>5, <1>7 DEF ParserOk
  <2>2. req \in 1 .. n /\ msgs[req] = "chunked"
    BY <2>1 DEF InChunks, n
  <2>3. req \in 1 .. Len(msgs') - 1 /\ req \in 1 .. Len(msgs') /\ msgs'[req] = "chunked"
    BY <2>2, <1>1
  <2>4. ~Plain'
    BY <2>3 DEF Plain
  <2> QED
    BY <2>1, <2>3, <2>4, <1>2 DEF InChunks
<1>8. ParserOk'
  <2>1. read \in Nat /\ read <= Len(stream') /\ req \in 0 .. Len(msgs')
    <3>1. read \in Nat /\ read <= Len(stream) /\ req \in 0 .. n
      BY <1>5 DEF ParserOk, n
    <3> QED
      BY <3>1, <1>1
  <2> QED
    BY <2>1, <1>2, <1>5, <1>6, <1>7 DEF ParserOk
<1>9. FlvOk'
  <2>1. ASSUME NEW i \in 1 .. n + 1, NEW j \in 1 .. n + 1, msgs'[i] = "flv", msgs'[j] = "flv"
        PROVE  i = j
    <3>1. CASE i = n + 1 \/ j = n + 1
      <4>1. k = "flv"
        BY <3>1, <2>1, <1>1
      <4>2. \A x \in 1 .. n : msgs'[x] # "flv"
        BY <4>1, <1>1, <1>2, <1>3
      <4> QED
        BY <2>1, <4>2, <1>1
    <3>2. CASE i # n + 1 /\ j # n + 1
      <4>1. i \in 1 .. n /\ j \in 1 .. n
        BY <3>2, <1>1
      <4> QED
        BY <4>1, <2>1, <1>1 DEF HIInv, FlvOk, n
    <3> QED
      BY <3>1, <3>2
  <2>2. ASSUME ~is_chunked, flv # "none"
        PROVE  \E j \in 1 .. n + 1 : msgs'[j] = "flv" /\ j <= Len(delivered)
    <3>1. PICK j \in 1 .. n : msgs[j] = "flv" /\ j <= Len(delivered)
      BY <2>2 DEF HIInv, FlvOk, n
    <3>2. j \in 1 .. n + 1 /\ msgs'[j] = "flv"
      BY <3>1, <1>1
    <3> QED
      BY <3>1, <3>2
  <2> QED
    BY <2>1, <2>2, <1>1, <1>2 DEF FlvOk
<1> QED
  BY <1>1, <1>2, <1>8, <1>9, OutStays, GoesOn DEF HIInv

(* At first nothing was sent, and a step of nothing changes nothing. *)
LEMMA InitHIInv == HttpInit => HIInv
<1> SUFFICES ASSUME HttpInit PROVE HIInv
  OBVIOUS
<1>1. /\ msgs = <<>> /\ stream = <<>> /\ begin = <<0>> /\ read = 0 /\ taken = 0
      /\ parsing = FALSE /\ state = "headers" /\ req = 0 /\ left = 0 /\ chunk = <<>>
      /\ is_chunked = FALSE /\ delivered = <<>> /\ closed = FALSE /\ spin = "no"
      /\ post_state = "init" /\ body = <<>> /\ call = <<>> /\ queue = <<>> /\ hollow = {}
      /\ due = 0 /\ flv = "none" /\ sending = FALSE /\ tags = 0 /\ out = <<>> /\ want = <<>>
      /\ mixed = FALSE /\ reused = FALSE
  BY DEF HttpInit
<1>2. /\ <<>> \in Seq(Symbol) /\ <<>> \in Seq(Kinds) /\ <<>> \in Seq(Nat \X Seq(Symbol))
      /\ Len(<<>>) = 0 /\ <<0>> \in Seq(Nat) /\ Len(<<0>>) = 1 /\ <<0>>[1] = 0
  BY EmptySeq
<1>3. SentOk
  <2>1. Len(msgs) = 0 /\ Len(stream) = 0 /\ Len(begin) = 1 /\ begin[1] = 0
    BY <1>1, <1>2
  <2> QED
    BY <1>1, <1>2, <2>1 DEF SentOk
<1>4. ParserOk
  <2>1. Len(msgs) = 0 /\ Len(stream) = 0 /\ Len(delivered) = 0 /\ begin[1] = 0
    BY <1>1, <1>2
  <2>2. InRequests
    BY <1>1, <2>1 DEF InRequests
  <2>3. /\ read \in Nat /\ taken \in Nat /\ taken <= read /\ read <= Len(stream)
        /\ req \in 0 .. Len(msgs) /\ left \in 0 .. 5
    BY <1>1, <2>1
  <2>4. chunk \in Seq(Symbol) /\ delivered \in Seq(Nat \X Seq(Symbol))
    BY <1>1, <1>2
  <2> QED
    BY <1>1, <2>2, <2>3, <2>4 DEF ParserOk
<1>5. OutOk
  <2>1. <<>> \o <<>> = <<>>
    BY <1>2, ConcatEmptySeq
  <2>2. AllWhole
    BY <1>1, <1>2, <2>1 DEF AllWhole, Whole, SameBut
  <2>3. HollowOk
    BY <1>1 DEF HollowOk
  <2>4. {body, call, queue, out} \subseteq Seq(Symbol)
    BY <1>1, <1>2
  <2>5. post_state \in {"init", "http", "header", "body"} /\ flv \in {"none", "new", "on"}
    BY <1>1
  <2>6. tags \in Nat /\ due \in Nat /\ ~ (due > 0)
    BY <1>1
  <2>7. {sending, mixed, reused} \subseteq BOOLEAN /\ body = <<>> /\ post_state # "header"
    BY <1>1
  <2> QED
    BY <2>2, <2>3, <2>4, <2>5, <2>6, <2>7 DEF OutOk
<1>6. SpinOk
  BY <1>1 DEF SpinOk, ParserSpinsOnlyOnCut, WriterSpinsOnlyOnEmpty
<1>7. FlvOk
  BY <1>1, <1>2 DEF FlvOk
<1> QED
  BY <1>3, <1>4, <1>5, <1>6, <1>7 DEF HIInv

(* See above. *)
LEMMA StutterHIInv ==
  ASSUME HIInv, UNCHANGED httpVars
  PROVE  HIInv'
<1>1. /\ UNCHANGED askVars /\ UNCHANGED outVars /\ UNCHANGED flv /\ read' = read
      /\ UNCHANGED <<taken, state, req, left, chunk, is_chunked, delivered>>
      /\ parsing' = parsing /\ closed' = closed /\ spin' = spin
  BY DEF httpVars, inVars, parserVars, outVars
<1>2. /\ read \in Nat /\ taken <= read /\ read <= Len(stream)
      /\ parsing \in BOOLEAN /\ closed \in BOOLEAN
  BY DEF HIInv, ParserOk
<1>3. SentOk' /\ ParserOk' /\ FlvOk'
  BY <1>1, <1>2, QuietKeeps DEF HIInv
<1>4. SpinOk'
  <2>1. (Plain' <=> Plain) /\ msgs' = msgs /\ begin' = begin /\ req' = req
    BY <1>1, AskedStays DEF askVars
  <2>2. Cuts' = Cuts
    BY <2>1 DEF Cuts
  <2>3. /\ call' = call /\ flv' = flv /\ queue' = queue /\ hollow' = hollow /\ tags' = tags
        /\ out' = out /\ due' = due
    BY <1>1 DEF outVars
  <2> QED
    BY <1>1, <2>1, <2>2, <2>3 DEF HIInv, SpinOk, ParserSpinsOnlyOnCut, WriterSpinsOnlyOnEmpty
<1> QED
  BY <1>1, <1>3, <1>4, OutStays DEF HIInv


-----------------------------------------------------------------------------
(* The steps of the parser.                                                 *)

(* It goes round for ever only where it may. *)
LEMMA SpinsOnCut ==
  ASSUME HIInv, InLoop, Spins,
         Plain => read \in Cuts \/ (closed /\ msgs[req] = "bad")
  PROVE  HIInv'
<1>1. SentOk' /\ ParserOk' /\ OutOk' /\ call' = <<>> /\ due' = 0 /\ spin' = "parse" /\ parsing'
  BY SpinsKeeps DEF HIInv
<1>2. /\ UNCHANGED askVars /\ read' = read /\ req' = req /\ closed' = closed
      /\ is_chunked' = is_chunked /\ delivered' = delivered /\ flv' = flv
  BY DEF Spins, outVars
<1>3. (Plain' <=> Plain) /\ msgs' = msgs /\ begin' = begin
  BY <1>2, AskedStays DEF askVars
<1>4. Cuts' = Cuts
  BY <1>3 DEF Cuts
<1>5. SpinOk'
  BY <1>1, <1>2, <1>3, <1>4 DEF SpinOk, ParserSpinsOnlyOnCut, WriterSpinsOnlyOnEmpty
<1>6. FlvOk'
  BY <1>2, <1>3 DEF HIInv, FlvOk
<1> QED
  BY <1>1, <1>5, <1>6 DEF HIInv

(* A request that was delivered stays delivered. *)
LEMMA FlvStays ==
  ASSUME HIInv, UNCHANGED askVars, flv' = flv, is_chunked => is_chunked',
         ParserOk', Len(delivered) <= Len(delivered')
  PROVE  FlvOk'
<1>1. msgs' = msgs /\ Len(msgs) \in Nat
  BY LenProperties DEF askVars, HIInv, SentOk
<1>2. Len(delivered) \in Nat /\ Len(delivered') \in Nat
  BY LenProperties DEF HIInv, ParserOk
<1>3. ASSUME ~is_chunked', flv # "none"
      PROVE  \E j \in 1 .. Len(msgs) : msgs[j] = "flv" /\ j <= Len(delivered')
  <2>1. ~is_chunked
    BY <1>3 DEF HIInv, ParserOk
  <2>2. PICK j \in 1 .. Len(msgs) : msgs[j] = "flv" /\ j <= Len(delivered)
    BY <2>1, <1>3 DEF HIInv, FlvOk
  <2>3. j <= Len(delivered')
    BY <2>2, <1>1, <1>2
  <2> QED
    BY <2>2, <2>3
<1> QED
  BY <1>1, <1>3 DEF HIInv, FlvOk

(* It takes some bytes, and delivers nothing. *)
LEMMA TakesKeeps ==
  ASSUME HIInv, InLoop, ParserOk', UNCHANGED askVars, UNCHANGED spin,
         UNCHANGED outVars, delivered' = delivered, is_chunked => is_chunked'
  PROVE  HIInv'
<1>1. SentOk' /\ spin' = "no" /\ flv' = flv
  BY AskedStays DEF HIInv, InLoop, Returned, outVars
<1>2. FlvOk'
  <2>1. Len(delivered) <= Len(delivered')
    BY LenProperties DEF HIInv, ParserOk
  <2> QED
    BY <2>1, <1>1, FlvStays
<1> QED
  BY <1>1, <1>2, OutStays, GoesOn DEF HIInv

(* It takes the last bytes of request i, and delivers it.  The request for *)
(* a stream is delivered once. *)
LEMMA DeliversKeeps ==
  ASSUME HIInv, InLoop, ParserOk', UNCHANGED askVars, UNCHANGED spin,
         NEW i \in 1 .. Len(msgs), NEW c, OnRequest(i, c), is_chunked' = is_chunked,
         msgs[i] = "flv" => ~is_chunked /\ i = Len(delivered) + 1
  PROVE  HIInv'
<1>1. SentOk' /\ spin' = "no" /\ call = <<>> /\ msgs' = msgs
  BY AskedStays DEF HIInv, InLoop, Returned, askVars
<1>2. /\ delivered' = Append(delivered, <<i, c>>)
      /\ flv' = (IF msgs[i] = "flv" THEN "new" ELSE flv)
  BY DEF OnRequest
<1>3. Len(delivered) \in Nat /\ Len(delivered') = Len(delivered) + 1
  <2>1. delivered \in Seq(Nat \X Seq(Symbol)) /\ delivered' \in Seq(Nat \X Seq(Symbol))
    BY DEF HIInv, ParserOk
  <2> QED
    BY <2>1, <1>2, LenProperties
<1>4. msgs[i] = "flv" => flv = "none"
  <2> SUFFICES ASSUME msgs[i] = "flv", flv # "none" PROVE FALSE
    OBVIOUS
  <2>1. PICK j \in 1 .. Len(msgs) : msgs[j] = "flv" /\ j <= Len(delivered)
    BY DEF HIInv, FlvOk
  <2>2. i = j
    BY <2>1 DEF HIInv, FlvOk
  <2> QED
    BY <2>1, <2>2, <1>3
<1>5. OutOk'
  BY <1>1, <1>4, OnRequestOut DEF HIInv
<1>6. FlvOk'
  <2>1. CASE msgs[i] = "flv"
    <3>1. i <= Len(delivered')
      BY <2>1, <1>3
    <3> QED
      BY <2>1, <3>1, <1>1 DEF HIInv, FlvOk
  <2>2. CASE msgs[i] # "flv"
    BY <2>2, <1>2, <1>3, FlvStays
  <2> QED
    BY <2>1, <2>2
<1> QED
  BY <1>1, <1>5, <1>6, GoesOn DEF HIInv

(* A header is parsed, or is cut. *)
LEMMA ParseHeadersKeeps ==
  ASSUME HIInv, ParseHeaders
  PROVE  HIInv'
<1> DEFINE end == find(buf, CRLF \o CRLF)
           k == buf[1][1]
           i == Len(delivered) + 1
<1>1. InLoop /\ entered = "headers" /\ SentOk /\ ParserOk /\ spin = "no"
  BY DEF ParseHeaders, InLoop, Returned, HIInv
<1>2. CASE Len(buf) <= 4 \/ end = 0
  <2>1. Spins
    BY <1>2 DEF ParseHeaders
  <2>2. read \in Cuts
    BY <1>1, <1>2, HeaderCut
  <2> QED
    BY <1>1, <2>1, <2>2, SpinsOnCut
<1>3. CASE ~ (Len(buf) <= 4 \/ end = 0)
  <2>1. /\ is_chunked' = (is_chunked \/ k = "chunked")
        /\ CASE k = "post"    -> Takes(end + 3, "normal_body", 3, <<>>)
             [] k = "chunked" -> Takes(end + 3, "chunk_len", 0, <<>>)
             [] k = "bad"     -> Takes(end + 3, "error", 0, <<>>)
             [] OTHER         -> Takes(end + 3, "complete", 0, <<>>)
        /\ IF k \in {"post", "chunked", "bad"}
             THEN UNCHANGED <<delivered, outVars>>
             ELSE OnRequest(buf[1][2], <<>>)
    BY <1>3 DEF ParseHeaders
  <2>2. spin' = spin
    BY <2>1 DEF Takes
  <2>3. ~Spins
    BY <2>2, <1>1 DEF Spins
  <2>4. ParserOk' /\ UNCHANGED askVars /\ UNCHANGED spin
    BY <1>1, <2>3, HeadersKeep
  <2>5. i \in 1 .. Len(msgs) /\ buf[1] = <<msgs[i], i>>
    <3>1. Len(buf) > 4 /\ end # 0
      <4>1. Len(buf) \in Nat
        BY <1>1, BufIs, LenProperties
      <4> QED
        BY <4>1, <1>3
    <3> QED
      BY <3>1, <1>1, HeaderTaken
  <2>6. k = msgs[i] /\ buf[1][2] = i
    BY <2>5
  <2>7. ~is_chunked /\ is_chunked \in BOOLEAN
    BY <1>1, EnteredFrom DEF ParserOk
  <2>8. CASE k \in {"post", "chunked", "bad"}
    <3>1. delivered' = delivered /\ UNCHANGED outVars
      BY <2>1, <2>8
    <3> QED
      BY <3>1, <1>1, <2>4, <2>7, TakesKeeps
  <2>9. CASE k \notin {"post", "chunked", "bad"}
    <3> HIDE DEF i
    <3>1. OnRequest(i, <<>>) /\ is_chunked' = is_chunked
      BY <2>1, <2>6, <2>7, <2>9
    <3>2. msgs[i] = "flv" => ~is_chunked /\ i = Len(delivered) + 1
      BY <2>7 DEF i
    <3> QED
      BY <3>1, <3>2, <1>1, <2>4, <2>5, DeliversKeeps
  <2> QED
    BY <2>8, <2>9
<1> QED
  BY <1>2, <1>3

(* After a bad request nothing is taken. *)
LEMMA ParseErrorKeeps ==
  ASSUME HIInv, ParseError
  PROVE  HIInv'
<1>1. InLoop /\ entered = "error" /\ Spins /\ ParserOk
  BY DEF ParseError, HIInv
<1>2. state = "error" /\ InRequests
  BY <1>1, EnteredFrom DEF ParserOk
<1>3. closed /\ msgs[req] = "bad"
  BY <1>2 DEF InRequests
<1> QED
  BY <1>1, <1>3, SpinsOnCut

(* A body is delivered when the last of it has come. *)
LEMMA ParseNormalBodyKeeps ==
  ASSUME HIInv, ParseNormalBody
  PROVE  HIInv'
<1> DEFINE c == old_chunk \o SubSeq(buf, 1, size)
<1>1. /\ InLoop /\ entered = "normal_body" /\ SentOk /\ ParserOk /\ is_chunked' = is_chunked
      /\ IF left = size THEN OnRequest(req, c) ELSE UNCHANGED <<delivered, outVars, closed>>
  BY DEF ParseNormalBody, HIInv
<1>2. ParserOk' /\ UNCHANGED askVars /\ UNCHANGED spin
  BY <1>1, NormalBodyKeeps
<1>3. state = "normal_body" /\ InRequests
  BY <1>1, EnteredFrom DEF ParserOk
<1>4. req \in 1 .. Len(msgs) /\ msgs[req] = "post"
  <2>1. req = Len(delivered) + 1 /\ req <= Len(msgs) /\ msgs[req] = "post"
    BY <1>3 DEF InRequests
  <2>2. Len(delivered) \in Nat /\ Len(msgs) \in Nat
    BY <1>1, LenProperties DEF ParserOk, SentOk
  <2> QED
    BY <2>1, <2>2
<1> HIDE DEF c
<1>5. CASE left = size
  <2>1. OnRequest(req, c) /\ msgs[req] # "flv"
    BY <1>1, <1>4, <1>5
  <2> QED
    BY <2>1, <1>1, <1>2, <1>4, DeliversKeeps
<1>6. CASE left # size
  <2>1. delivered' = delivered /\ UNCHANGED outVars
    BY <1>1, <1>6
  <2> QED
    BY <2>1, <1>1, <1>2, TakesKeeps
<1> QED
  BY <1>5, <1>6

(* The size of a chunk is parsed, or is cut. *)
LEMMA ParseChunkLenKeeps ==
  ASSUME HIInv, ParseChunkLen
  PROVE  HIInv'
<1> DEFINE end == find(buf, CRLF)
<1>1. InLoop /\ entered = "chunk_len" /\ SentOk /\ ParserOk /\ spin = "no"
  BY DEF ParseChunkLen, InLoop, Returned, HIInv
<1>2. CASE end = 0
  <2>1. Spins
    BY <1>2 DEF ParseChunkLen
  <2>2. Plain => read \in Cuts
    BY <1>1, <1>2, SizeLineCut
  <2> QED
    BY <1>1, <2>1, <2>2, SpinsOnCut
<1>3. CASE end # 0
  <2>1. spin' = spin /\ UNCHANGED <<req, is_chunked, delivered, outVars, closed>>
    BY <1>3 DEF ParseChunkLen, Takes
  <2>2. ~Spins
    BY <2>1, <1>1 DEF Spins
  <2>3. ParserOk' /\ UNCHANGED askVars /\ UNCHANGED spin
    BY <1>1, <2>2, ChunkLenKeeps
  <2> QED
    BY <1>1, <2>1, <2>3, TakesKeeps
<1> QED
  BY <1>2, <1>3

(* A chunk is delivered when the last of it has come. *)
LEMMA ParseChunkKeeps ==
  ASSUME HIInv, ParseChunk
  PROVE  HIInv'
<1> DEFINE c == old_chunk \o SubSeq(buf, 1, size)
           whole == SubSeq(c, 1, Len(c) - 2)
<1>1. /\ InLoop /\ entered = "chunk_body" /\ SentOk /\ ParserOk /\ is_chunked' = is_chunked
      /\ left = size => OnRequest(req, whole)
      /\ left # size => UNCHANGED <<delivered, outVars, closed>>
  BY DEF ParseChunk, HIInv
<1>2. ParserOk' /\ UNCHANGED askVars /\ UNCHANGED spin
  BY <1>1, ChunkKeeps
<1>3. req \in 1 .. Len(msgs) /\ msgs[req] = "chunked"
  BY <1>1, EnteredFrom DEF ParserOk, InChunks
<1> HIDE DEF c, whole
<1>4. CASE left = size
  <2>1. OnRequest(req, whole) /\ msgs[req] # "flv"
    BY <1>1, <1>3, <1>4
  <2> QED
    BY <2>1, <1>1, <1>2, <1>3, DeliversKeeps
<1>5. CASE left # size
  <2>1. delivered' = delivered /\ UNCHANGED outVars
    BY <1>1, <1>5
  <2> QED
    BY <2>1, <1>1, <1>2, TakesKeeps
<1> QED
  BY <1>4, <1>5

(* The empty chunk is delivered too. *)
LEMMA ParseLastEmptyKeeps ==
  ASSUME HIInv, ParseLastEmptyChunk
  PROVE  HIInv'
<1> DEFINE end == find(buf, CRLF)
<1>1. InLoop /\ entered = "last_empty" /\ SentOk /\ ParserOk /\ spin = "no"
  BY DEF ParseLastEmptyChunk, InLoop, Returned, HIInv
<1>2. CASE end = 0
  <2>1. Spins
    BY <1>2 DEF ParseLastEmptyChunk
  <2>2. ~Plain
    <3>1. Plain => end = 1
      BY <1>1, LastLineThere
    <3> QED
      BY <3>1, <1>2
  <2> QED
    BY <1>1, <2>1, <2>2, SpinsOnCut
<1>3. CASE end # 0
  <2>1. spin' = spin /\ OnRequest(req, <<>>) /\ is_chunked' = is_chunked
    BY <1>3 DEF ParseLastEmptyChunk, Takes
  <2>2. ~Spins
    BY <2>1, <1>1 DEF Spins
  <2>3. ParserOk' /\ UNCHANGED askVars /\ UNCHANGED spin
    BY <1>1, <2>2, LastEmptyKeeps
  <2>4. req \in 1 .. Len(msgs) /\ msgs[req] = "chunked"
    BY <1>1, EnteredFrom DEF ParserOk, InChunks
  <2> QED
    BY <1>1, <2>1, <2>3, <2>4, DeliversKeeps
<1> QED
  BY <1>2, <1>3


-----------------------------------------------------------------------------
(* The steps that write, and all of them.                                   *)

(* What is written does not touch what was parsed. *)
LEMMA WritesOnly ==
  ASSUME HIInv, UNCHANGED inVars, UNCHANGED closed,
         flv' = flv \/ flv # "none", OutOk', SpinOk'
  PROVE  HIInv'
<1>1. /\ UNCHANGED askVars /\ read' = read /\ parsing' = parsing /\ closed' = closed
      /\ UNCHANGED <<taken, state, req, left, chunk, is_chunked, delivered>>
  BY DEF inVars, parserVars
<1>2. /\ SentOk' /\ (Plain' <=> Plain) /\ \A j : Call(j)' = Call(j)
      /\ msgs' = msgs /\ stream' = stream /\ begin' = begin
  BY <1>1, AskedStays DEF askVars, HIInv
<1>3. ParserOk'
  <2>1. ParserOk
    BY DEF HIInv
  <2>2. ~is_chunked => InRequests'
    <3>1. ~is_chunked => InRequests
      BY <2>1 DEF ParserOk
    <3>2. /\ state' = state /\ req' = req /\ left' = left /\ taken' = taken
          /\ chunk' = chunk /\ delivered' = delivered
      BY <1>1
    <3>3. InRequests => InRequests'
      BY <3>2, <1>2 DEF InRequests
    <3> QED
      BY <3>1, <3>3
  <2>3. is_chunked => InChunks'
    BY <2>1, <1>1, <1>2 DEF ParserOk, InChunks
  <2>4. is_chunked /\ Plain => InLastRequest'
    BY <2>1, <1>1, <1>2 DEF ParserOk, InLastRequest
  <2> QED
    BY <2>1, <2>2, <2>3, <2>4, <1>1, <1>2 DEF ParserOk
<1>4. FlvOk'
  BY <1>1, <1>2 DEF HIInv, FlvOk
<1> QED
  BY <1>2, <1>3, <1>4 DEF HIInv

(* A buffer is queued, written or refused. *)
LEMMA SendKeeps ==
  ASSUME HIInv, SendQueued \/ SendFails \/ \E n \in 1 .. Len(call) : SendWrites(n)
  PROVE  HIInv'
<1>1. call # <<>> /\ Kept /\ spin' = spin
  BY DEF SendQueued, SendFails, SendWrites
<1>2. spin' = "no"
  BY <1>1 DEF HIInv, SpinOk
<1>3. OutOk'
  BY QueuedKeeps, FailsKeeps, WritesKeeps DEF HIInv
<1>4. UNCHANGED inVars /\ UNCHANGED closed /\ flv' = flv
  BY <1>1 DEF Kept
<1> QED
  BY <1>2, <1>3, <1>4, GoesOn, WritesOnly

(* What holds in every state, is kept by every step. *)
LEMMA NextHIInv == HIInv /\ [HttpNext]_httpVars => HIInv'
<1> SUFFICES ASSUME HIInv, [HttpNext]_httpVars PROVE HIInv'
  OBVIOUS
<1>1. ASSUME NEW k \in Kinds, Request(k) PROVE HIInv'
  BY <1>1, RequestKeeps
<1>2. ASSUME NEW n \in 1 .. Len(stream) - read, OnRead(n) PROVE HIInv'
  BY <1>2, OnReadKeeps
<1>3. CASE Parse
  BY <1>3, ParseHeadersKeeps, ParseErrorKeeps, ParseNormalBodyKeeps, ParseChunkLenKeeps,
     ParseChunkKeeps, ParseLastEmptyKeeps, ParseEndsKeeps DEF Parse
<1>4. CASE SendQueued \/ SendFails \/ \E n \in 1 .. Len(call) : SendWrites(n)
  BY <1>4, SendKeeps
<1>5. ASSUME NEW n \in 1 .. Len(queue), OnWrite(n) PROVE HIInv'
  <2>1. OutOk' /\ SpinOk'
    BY <1>5, OnWriteKeeps DEF HIInv
  <2>2. UNCHANGED inVars /\ UNCHANGED closed /\ flv' = flv
    BY <1>5 DEF OnWrite, Kept
  <2> QED
    BY <2>1, <2>2, WritesOnly
<1>6. ASSUME NEW list \in Lists, PostFrames(list) PROVE HIInv'
  <2>1. Post(queue, list) /\ call = <<>> /\ flv # "none" /\ due' = due /\ spin = "no"
    BY <1>6 DEF PostFrames, Idle, Returned
  <2>2. OutOk' /\ UNCHANGED inVars /\ UNCHANGED closed /\ spin' = spin
    <3>1. due' \in Nat /\ queue \in Unheld(queue)
      BY <2>1 DEF HIInv, OutOk, Unheld
    <3> QED
      BY <2>1, <3>1, PostKeeps DEF HIInv, Post
  <2> QED
    BY <2>1, <2>2, GoesOn, WritesOnly
<1>9. CASE FlvWriteComplete
  <2>1. flv # "none" /\ spin = "no"
    BY <1>9 DEF FlvWriteComplete, HIInv, OutOk, SpinOk
  <2>2. OutOk' /\ UNCHANGED inVars /\ UNCHANGED closed /\ spin' = spin
    BY <1>9, <2>1, FlvCompleteKeeps DEF HIInv
  <2> QED
    BY <2>1, <2>2, GoesOn, WritesOnly
<1>7. CASE OnClose
  BY <1>7, OnCloseKeeps
<1>8. CASE UNCHANGED httpVars
  BY <1>8, StutterHIInv
<1> QED
  BY <1>1, <1>2, <1>3, <1>4, <1>5, <1>6, <1>7, <1>8, <1>9 DEF HttpNext

(* The inductive invariant of the connection. *)
LEMMA AlwaysHIInv == HttpSpec => []HIInv
BY InitHIInv, NextHIInv, PTL DEF HttpSpec

(* Once every byte is parsed, no request waits to be delivered. *)
LEMMA AllDelivered ==
  ASSUME HIInv, Plain, taken = Len(stream)
  PROVE  Call(Len(delivered) + 1) = <<>>
<1> DEFINE d == Len(delivered)
           n == Len(msgs)
<1>1. /\ SentOk /\ ParserOk /\ d \in Nat /\ n \in Nat /\ begin[n + 1] = Len(stream)
      /\ Len(stream) \in Nat /\ DOMAIN msgs = 1 .. n
  BY LenProperties DEF HIInv, ParserOk, SentOk
<1>2. CASE ~is_chunked
  <2>1. InRequests
    BY <1>1, <1>2 DEF ParserOk
  <2>2. CASE state \in {"headers", "complete"}
    <3>1. d <= n /\ taken = begin[d + 1]
      BY <2>1, <2>2 DEF InRequests
    <3>2. d = n
      <4> SUFFICES ASSUME d # n PROVE FALSE
        OBVIOUS
      <4>1. d + 1 \in 1 .. n
        BY <3>1, <1>1
      <4>2. /\ begin[d + 1] \in Nat /\ begin[(d + 1) + 1] <= Len(stream)
            /\ begin[(d + 1) + 1] = begin[d + 1] + (IF msgs[d + 1] = "post" THEN 8
                                       ELSE IF msgs[d + 1] = "chunked" THEN 18 ELSE 5)
        BY <4>1, <1>1, RequestAt
      <4> HIDE DEF d, n
      <4> QED
        BY <4>2, <3>1
    <3>3. d # 0 => msgs[d] # "chunked"
      <4>1. d # 0 => d \in 1 .. Len(delivered)
        BY <1>1
      <4> QED
        BY <4>1, <2>1 DEF InRequests
    <3>4. d + 1 \notin DOMAIN msgs /\ (d + 1 # 1 => msgs[(d + 1) - 1] # "chunked")
      BY <3>2, <3>3, <1>1
    <3> QED
      BY <3>4 DEF Call
  <2>3. state # "normal_body"
    <3> SUFFICES ASSUME state = "normal_body" PROVE FALSE
      OBVIOUS
    <3>1. /\ req = d + 1 /\ req <= n /\ msgs[req] = "post" /\ left \in 1 .. 3
          /\ taken = begin[req] + (8 - left)
      BY <2>1 DEF InRequests
    <3>2. req \in 1 .. n
      BY <3>1, <1>1
    <3>3. begin[req] \in Nat /\ begin[req + 1] <= Len(stream) /\ begin[req + 1] = begin[req] + 8
      BY <3>1, <3>2, <1>1, RequestAt
    <3> HIDE DEF d, n
    <3> QED
      BY <3>1, <3>3
  <2>4. CASE state = "error"
    <3>1. req = d + 1 /\ req <= n /\ msgs[req] = "bad"
      BY <2>1, <2>4 DEF InRequests
    <3>2. d + 1 \in 1 .. Len(msgs)
      BY <3>1, <1>1
    <3> HIDE DEF d, n
    <3>3. Call(d + 1) = <<>>
      BY <3>1, <3>2, <1>1, CallIs
    <3> QED
      BY <3>3 DEF d
  <2> QED
    BY <2>1, <2>2, <2>3, <2>4 DEF InRequests
<1>3. CASE is_chunked
  <2>1. /\ InLastRequest /\ begin[n] \in Nat /\ Len(stream) = begin[n] + 18
        /\ InChunks
    BY <1>1, <1>3, LastIsChunked DEF ParserOk
  <2>2. left > 0 => 13 - left < 13
    BY <2>1 DEF InChunks
  <2>3. state = "chunk_complete" /\ d = n + 1
    <3>1. /\ state = "chunk_len" => taken = begin[n] + 5 \/ taken = begin[n] + 13
          /\ state = "chunk_body" => taken = begin[n] + (13 - left)
          /\ state = "last_empty" => taken = begin[n] + 16
          /\ state = "chunk_complete" => taken = begin[n] + 13 \/ (d = n + 1 /\ taken = begin[n] + 18)
      BY <2>1 DEF InLastRequest
    <3>2. /\ state \in {"chunk_len", "chunk_body", "last_empty", "chunk_complete"}
          /\ left \in 0 .. 5
      BY <2>1 DEF InChunks
    <3> HIDE DEF d, n
    <3>3. taken = begin[n] + 18
      BY <2>1
    <3> QED
      BY <3>1, <3>2, <3>3, <2>1
  <2>4. d + 1 \notin DOMAIN msgs /\ d + 1 # n + 1
    BY <2>3, <1>1
  <2> QED
    BY <2>4 DEF Call
<1> QED
  BY <1>2, <1>3

(***************************************************************************)
(* HttpParser: however the bytes of the requests are cut by the reads,     *)
(* OnRequest is called for each of them in order and with its own body.    *)
(***************************************************************************)
THEOREM RequestsAreIntact == HttpSpec => []RequestsIntact
<1>1. ASSUME HIInv PROVE HttpType
  <2>1. /\ 0 <= taken /\ taken <= read /\ read <= Len(stream)
        /\ req \in 0 .. Len(msgs) /\ left \in 0 .. 5
    BY <1>1 DEF HIInv, ParserOk
  <2>2. /\ state \in {"headers", "normal_body", "chunk_len", "chunk_body", "last_empty",
                      "complete", "chunk_complete", "error"}
        /\ state \in {"normal_body", "chunk_body"} <=> left > 0
    <3>1. CASE is_chunked
      BY <1>1, <3>1 DEF HIInv, ParserOk, InChunks
    <3>2. CASE ~is_chunked
      <4>1. InRequests
        BY <1>1, <3>2 DEF HIInv, ParserOk
      <4> QED
        BY <4>1 DEF InRequests
    <3> QED
      BY <3>1, <3>2
  <2> QED
    BY <1>1, <2>1, <2>2 DEF HttpType, HIInv, OutOk, SpinOk
<1>2. ASSUME HIInv, Plain, NEW i \in DOMAIN delivered PROVE delivered[i] = Call(i)
  <2>1. i \in 1 .. Len(delivered) /\ ParserOk
    BY <1>2, LenProperties DEF HIInv, ParserOk
  <2> QED
    BY <1>2, <2>1 DEF ParserOk, InRequests, InLastRequest
<1>3. HIInv => RequestsIntact
  BY <1>1, <1>2, AllDelivered DEF RequestsIntact
<1> QED
  BY <1>3, AlwaysHIInv, PTL

(* HttpContext::Parse goes round for ever only on a header or a size that  *)
(* was cut, or after a bad request, never on a body. *)
THEOREM ParserSpinsThere == HttpSpec => []ParserSpinsOnlyOnCut
<1>1. HIInv => ParserSpinsOnlyOnCut
  BY DEF HIInv, SpinOk
<1> QED
  BY <1>1, AlwaysHIInv, PTL

(* TcpConnection::OnWrite calls writev for ever only on the empty body of  *)
(* the last tag, when all else is written. *)
THEOREM WriterSpinsThere == HttpSpec => []WriterSpinsOnlyOnEmpty
<1>1. HIInv => WriterSpinsOnlyOnEmpty
  BY DEF HIInv, SpinOk
<1> QED
  BY <1>1, AlwaysHIInv, PTL

(* Answers and tags are written whole and in order, in spite of partial    *)
(* writes, but for the stray bytes of the writes that fail, and two cases  *)
(* apart: a stream between the header and the body of a fragment, and the  *)
(* content of tags once FlvContext has used its buffers again while they   *)
(* were queued.                                                            *)
THEOREM ResponsesAreWhole == HttpSpec => []ResponsesWhole
<1>1. HIInv => ResponsesWhole
  BY DEF HIInv, OutOk, AllWhole, Whole, ResponsesWhole
<1> QED
  BY <1>1, AlwaysHIInv, PTL

=============================================================================
