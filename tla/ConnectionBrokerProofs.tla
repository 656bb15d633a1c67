----------------------- MODULE ConnectionBrokerProofs -----------------------
(***************************************************************************)
(* Proofs about ConnectionBroker, for any number of attempts,              *)
(* incarnations, consumers and faults.  The invariant speaks of the slots  *)
(* sl and the connections cs, because most actions are made of several     *)
(* updates (Cancel, Over, Wake) that each keep it.                         *)
(***************************************************************************)
EXTENDS ConnectionBroker, TLAPS

-----------------------------------------------------------------------------
(* The shape of the state, as far as the invariant depends on it.          *)

SlotShape(s) ==
  /\ s = [candidates |-> s.candidates, primary |-> s.primary,
          accepted |-> s.accepted, local |-> s.local, current |-> s.current,
          retired |-> s.retired, error |-> s.error, spare |-> s.spare,
          bare |-> s.bare]
  /\ s.candidates \subseteq Keys

Slots(sl) == sl = [n \in Nodes |-> sl[n]] /\ \A n \in Nodes : SlotShape(sl[n])

EndShape(e) == e = [step |-> e.step, saw |-> e.saw, link |-> e.link]

ConnShape(c) ==
  /\ c = [hello |-> c.hello, welcome |-> c.welcome, delivered |-> c.delivered,
          refused |-> c.refused, end |-> c.end]
  /\ c.end = [n \in Nodes |-> c.end[n]]
  /\ \A n \in Nodes : EndShape(c.end[n])

Conns(cs) == cs = [k \in Keys |-> cs[k]] /\ \A k \in Keys : ConnShape(cs[k])

-----------------------------------------------------------------------------
(* The invariant.                                                          *)

Greeting == {"registered", "hello"}
Seen == {"observed", "sent", "ready", "decided", "waiting", "actor"}
Away == {"none", "gone"}

\* Who a task past the greeting may have seen: the owner the slot takes for
\* current, or an end that did not name its owner.
Known(s, saw) == saw = Bare \/ (saw = s.current /\ s.current # None)

\* A candidate has a task.  Before it has seen the other owner it remembers
\* none, afterwards a known one: this is what makes PrimaryIsCurrent survive
\* an owner that is replaced while other handshakes are half way.
SoundAt(s, cs, n) ==
  /\ \A k \in s.candidates :
       \/ cs[k].end[n].step \in Greeting /\ cs[k].end[n].saw = None
       \/ /\ cs[k].end[n].step \in Seen
          /\ Known(s, cs[k].end[n].saw)
  /\ s.primary # None =>
       s.primary \in s.candidates /\ cs[s.primary].end[n].step \in Seen

\* An acceptor that is past the Hello has read one and one before it has seen
\* nobody; a dialer that has not sent its Hello has sent none, and never
\* accepts.
HelloSound(c, k) ==
  /\ c.end[Other(k[1])].step \in {"arrived"} \cup Greeting \cup Seen => c.hello # None
  /\ c.end[Other(k[1])].step \in {"accepting", "arrived"} => c.end[Other(k[1])].saw = None
  /\ c.end[k[1]].step = "registered" => c.hello = None
  /\ c.end[k[1]].step \notin {"accepting", "arrived"}

Sound(sl, cs) ==
  /\ Slots(sl) /\ Conns(cs)
  /\ \A n \in Nodes : SoundAt(sl[n], cs, n)
  /\ \A k \in Keys : HelloSound(cs[k], k)

BrokerInv == Sound(slot, conn)

\* The parts of a key.
LEMMA KeyParts == \A k \in Keys : k[1] \in Nodes /\ Other(k[1]) \in Nodes /\ Other(k[1]) # k[1]
BY DEF Keys, Nodes, Other

\* The invariant is what the run checks.
LEMMA SoundSuffices == BrokerInv => CandidatesSound
<1> SUFFICES ASSUME BrokerInv  PROVE  CandidatesSound
  BY Zenon
<1>1. ASSUME NEW n \in Nodes  PROVE  SlotShape(slot[n]) /\ SoundAt(slot[n], conn, n)
  BY Zenon DEF BrokerInv, Sound, Slots
<1>2. CandidatesHaveTasks
  BY Zenon, <1>1 DEF CandidatesHaveTasks, SoundAt, Step, End, Greeting, Seen
<1>3. PrimaryIsCurrent
  BY Zenon, <1>1 DEF PrimaryIsCurrent, SoundAt, Known, End, Greeting, Seen
<1> QED  BY Zenon, <1>2, <1>3 DEF CandidatesSound

-----------------------------------------------------------------------------
(* Updates that leave every task where it is.                              *)

\* Wake turns waiting into ready; nothing else of what the invariant reads
\* changes.
Same(cs, ds, n) ==
  /\ Conns(ds)
  /\ \A k \in Keys : ds[k].hello = cs[k].hello
  /\ \A k \in Keys, m \in Nodes :
       /\ ds[k].end[m].saw = cs[k].end[m].saw
       /\ \/ ds[k].end[m].step = cs[k].end[m].step
          \/ m = n /\ cs[k].end[m].step = "waiting" /\ ds[k].end[m].step = "ready"

\* What it takes to change one end of a connection.
SetEnd(c, n, e) == [c EXCEPT !.end[n] = e]

\* The other end, and what the connection carries, stay.
LEMMA EndSet ==
  ASSUME NEW c, ConnShape(c), NEW n \in Nodes, NEW e, EndShape(e)
  PROVE  /\ ConnShape(SetEnd(c, n, e)) /\ SetEnd(c, n, e).hello = c.hello
         /\ \A m \in Nodes : SetEnd(c, n, e).end[m] = IF m = n THEN e ELSE c.end[m]
<1>1. PICK f : f = [c.end EXCEPT ![n] = e]
  BY Zenon
<1>2. PICK d : d = SetEnd(c, n, e)
  BY Zenon
<1>3. d = [c EXCEPT !.end = f]
  BY Zenon, <1>1, <1>2 DEF SetEnd
<1>4. /\ f = [m \in Nodes |-> f[m]] /\ \A m \in Nodes : EndShape(f[m])
      /\ \A m \in Nodes : f[m] = IF m = n THEN e ELSE c.end[m]
  BY Zenon, <1>1 DEF ConnShape
<1>5. /\ d.end = f /\ d.hello = c.hello
      /\ d = [hello |-> d.hello, welcome |-> d.welcome, delivered |-> d.delivered,
              refused |-> d.refused, end |-> d.end]
  BY Zenon, <1>3 DEF ConnShape
<1> QED  BY Zenon, <1>2, <1>4, <1>5 DEF ConnShape

\* An end with another step, or with another state of its link.
LEMMA EndRewritten ==
  ASSUME NEW e, EndShape(e), NEW x
  PROVE  /\ \A d : d = [e EXCEPT !.step = x] => EndShape(d) /\ d.step = x /\ d.saw = e.saw
         /\ \A d : d = [e EXCEPT !.link = x] => EndShape(d) /\ d.step = e.step /\ d.saw = e.saw
BY DEF EndShape

\* What it takes to change the step of one end.
Turn(c, n, step) == [c EXCEPT !.end[n].step = step]

\* Nothing but the step of that end changes.
LEMMA EndTurned ==
  ASSUME NEW c, ConnShape(c), NEW n \in Nodes, NEW step
  PROVE  /\ ConnShape(Turn(c, n, step)) /\ Turn(c, n, step).hello = c.hello
         /\ \A m \in Nodes :
              /\ Turn(c, n, step).end[m].saw = c.end[m].saw
              /\ Turn(c, n, step).end[m].step = IF m = n THEN step ELSE c.end[m].step
<1>1. PICK e : e = [c.end[n] EXCEPT !.step = step]
  BY Zenon
<1>2. EndShape(e) /\ e.step = step /\ e.saw = c.end[n].saw
  <2>1. EndShape(c.end[n])
    BY Zenon DEF ConnShape
  <2> QED  BY <1>1, <2>1, EndRewritten
<1>3. Turn(c, n, step) = SetEnd(c, n, e)
  BY Zenon, <1>1 DEF Turn, SetEnd
<1> QED  BY <1>2, <1>3, EndSet

\* Notify::notify_waiters.
LEMMA WakeSame ==
  ASSUME NEW cs, Conns(cs), NEW n \in Nodes
  PROVE  Same(cs, Wake(cs, n), n)
<1> DEFINE ds == Wake(cs, n)
<1>1. ASSUME NEW k \in Keys
      PROVE  /\ ds[k].hello = cs[k].hello /\ ConnShape(ds[k])
             /\ \A m \in Nodes :
                  /\ ds[k].end[m].saw = cs[k].end[m].saw
                  /\ \/ ds[k].end[m].step = cs[k].end[m].step
                     \/ m = n /\ cs[k].end[m].step = "waiting" /\ ds[k].end[m].step = "ready"
  <2>1. PICK step : step = IF cs[k].end[n].step = "waiting" THEN "ready" ELSE cs[k].end[n].step
    BY Zenon
  <2>2. PICK c : c = cs[k]
    BY Zenon
  <2>3. PICK d : d = ds[k]
    BY Zenon
  <2>4. d = Turn(c, n, step)
    <3>1. ds[k] = [cs[k] EXCEPT
             !.end[n].step = IF cs[k].end[n].step = "waiting" THEN "ready" ELSE cs[k].end[n].step]
      BY Zenon DEF Wake
    <3> QED  BY Zenon, <2>1, <2>2, <2>3, <3>1 DEF Turn
  <2>5. ConnShape(c)
    BY Zenon, <2>2 DEF Conns
  <2>6. /\ ConnShape(d) /\ d.hello = c.hello
        /\ \A m \in Nodes : /\ d.end[m].saw = c.end[m].saw
                            /\ d.end[m].step = IF m = n THEN step ELSE c.end[m].step
    BY <2>4, <2>5, EndTurned
  <2> HIDE DEF ds
  <2>7. c.end[n].step = "waiting" => step = "ready"
    BY Zenon, <2>1, <2>2
  <2>8. c.end[n].step # "waiting" => step = c.end[n].step
    BY Zenon, <2>1, <2>2
  <2> QED  BY Zenon, <2>2, <2>3, <2>6, <2>7, <2>8
<1>2. ds = [k \in Keys |-> ds[k]]
  BY Zenon DEF Wake
<1> HIDE DEF ds
<1>3. Same(cs, ds, n)
  BY Zenon, <1>1, <1>2 DEF Same, Conns
<1> QED  BY Zenon, <1>3 DEF ds

\* Candidate::cancel.
LEMMA CancelSame ==
  ASSUME NEW cs, Conns(cs), NEW n \in Nodes, NEW keys, NEW u
  PROVE  Same(cs, Cancel(cs, n, keys, u), n)
<1> DEFINE ds == Cancel(cs, n, keys, u)
<1>1. ASSUME NEW k \in Keys
      PROVE  /\ ds[k].hello = cs[k].hello /\ ConnShape(ds[k])
             /\ \A m \in Nodes : /\ ds[k].end[m].saw = cs[k].end[m].saw
                                 /\ ds[k].end[m].step = cs[k].end[m].step
  <2>1. CASE k \notin keys
    <3>1. ds[k] = cs[k]
      BY Zenon, <2>1 DEF Cancel
    <3> QED  BY Zenon, <3>1 DEF Conns
  <2>2. CASE k \in keys
    <3>1. PICK c : c = cs[k]
      BY Zenon
    <3>2. ConnShape(c)
      BY Zenon, <3>1 DEF Conns
    <3>3. PICK e : e = [c.end[n] EXCEPT !.link = "closed"]
      BY Zenon
    <3>4. EndShape(e) /\ e.step = c.end[n].step /\ e.saw = c.end[n].saw
      <4>1. EndShape(c.end[n])
        BY Zenon, <3>2 DEF ConnShape
      <4> QED  BY <3>3, <4>1, EndRewritten
    <3>5. PICK b : b = [c EXCEPT !.refused = c.refused \/ u]
      BY Zenon
    <3>6. ConnShape(b) /\ b.hello = c.hello /\ b.end = c.end
      BY Zenon, <3>2, <3>5 DEF ConnShape
    <3>7. ds[k] = SetEnd(b, n, e)
      <4>1. ds[k] = [c EXCEPT !.end[n].link = "closed", !.refused = c.refused \/ u]
        BY Zenon, <2>2, <3>1 DEF Cancel
      <4>2. PICK f : f = [c.end EXCEPT ![n] = e]
        BY Zenon
      <4>3. ds[k] = [c EXCEPT !.end = f, !.refused = c.refused \/ u]
        BY Zenon, <3>3, <4>1, <4>2
      <4>4. ds[k] = [b EXCEPT !.end = f]
        BY Zenon, <3>2, <3>5, <4>3 DEF ConnShape
      <4>5. ds[k] = [b EXCEPT !.end[n] = e]
        BY Zenon, <3>6, <4>2, <4>4
      <4> QED  BY Zenon, <4>5 DEF SetEnd
    <3> QED  BY <3>1, <3>4, <3>6, <3>7, EndSet
  <2> QED  BY Zenon, <2>1, <2>2
<1>2. ds = [k \in Keys |-> ds[k]]
  BY Zenon DEF Cancel
<1> HIDE DEF ds
<1>3. Same(cs, ds, n)
  BY Zenon, <1>1, <1>2 DEF Same, Conns
<1> QED  BY Zenon, <1>3 DEF ds

\* Two such updates are one.
LEMMA SameTwice ==
  ASSUME NEW cs, NEW ds, NEW es, NEW n, Same(cs, ds, n), Same(ds, es, n)
  PROVE  Same(cs, es, n)
BY DEF Same

\* They keep the invariant.
LEMMA SameSound ==
  ASSUME NEW sl, NEW cs, NEW ds, NEW n, Sound(sl, cs), Same(cs, ds, n)
  PROVE  Sound(sl, ds)
<1>1. ASSUME NEW m \in Nodes  PROVE  SoundAt(sl[m], ds, m)
  <2>1. PICK s : s = sl[m]
    BY Zenon
  <2>2. SoundAt(s, cs, m) /\ s.candidates \subseteq Keys
    BY Zenon, <2>1 DEF Sound, Slots, SlotShape
  <2>3. \A k \in Keys : /\ ds[k].end[m].saw = cs[k].end[m].saw
                        /\ \/ ds[k].end[m].step = cs[k].end[m].step
                           \/ cs[k].end[m].step \in Seen /\ ds[k].end[m].step \in Seen
    BY Zenon DEF Same, Seen
  <2>4. \A k \in s.candidates :
             \/ ds[k].end[m].step \in Greeting /\ ds[k].end[m].saw = None
             \/ /\ ds[k].end[m].step \in Seen
                /\ Known(s, ds[k].end[m].saw)
    <3> TAKE k \in s.candidates
    <3>1. \/ cs[k].end[m].step \in Greeting /\ cs[k].end[m].saw = None
          \/ /\ cs[k].end[m].step \in Seen
             /\ Known(s, cs[k].end[m].saw)
      BY Zenon, <2>2 DEF SoundAt
    <3> QED  BY <2>2, <2>3, <3>1 DEF Seen, Greeting
  <2>5. s.primary # None => s.primary \in s.candidates /\ ds[s.primary].end[m].step \in Seen
    BY Zenon, <2>2, <2>3 DEF SoundAt
  <2>6. SoundAt(s, ds, m)
    BY Zenon, <2>2, <2>4, <2>5 DEF SoundAt
  <2> QED  BY Zenon, <2>1, <2>6
<1>2. ASSUME NEW k \in Keys  PROVE  HelloSound(ds[k], k)
  <2>1. k[1] \in Nodes /\ Other(k[1]) \in Nodes
    BY Zenon, KeyParts
  <2>2. \A m \in Nodes : \/ ds[k].end[m].step = cs[k].end[m].step
                         \/ cs[k].end[m].step \in Seen /\ ds[k].end[m].step = "ready"
    BY Zenon DEF Same, Seen
  <2>3. /\ HelloSound(cs[k], k) /\ ds[k].hello = cs[k].hello
        /\ \A m \in Nodes : ds[k].end[m].saw = cs[k].end[m].saw
    BY Zenon DEF Sound, Same
  <2> QED  BY Zenon, <2>1, <2>2, <2>3 DEF HelloSound
<1> QED  BY Zenon, <1>1, <1>2 DEF Sound, Same

-----------------------------------------------------------------------------
(* Updates that take candidates away.                                      *)

\* s keeps its owner and loses candidates at most.
Fewer(s, t) ==
  /\ SlotShape(t)
  /\ t.candidates \subseteq s.candidates
  /\ t.current = s.current /\ t.retired \subseteq s.retired
  /\ t.primary # None => t.primary = s.primary /\ t.primary \in t.candidates

FewerAt(sl, tl, n) ==
  /\ tl = [m \in Nodes |-> tl[m]]
  /\ \A m \in Nodes \ {n} : tl[m] = sl[m]
  /\ Fewer(sl[n], tl[n])

\* The invariant survives that.
LEMMA FewerSound ==
  ASSUME NEW sl, NEW cs, NEW tl, NEW n \in Nodes, Sound(sl, cs), FewerAt(sl, tl, n)
  PROVE  Sound(tl, cs)
<1>1. SoundAt(tl[n], cs, n)
  <2>1. SoundAt(sl[n], cs, n) /\ Fewer(sl[n], tl[n])
    BY Zenon DEF Sound, FewerAt
  <2> QED  BY Zenon, <2>1 DEF SoundAt, Fewer, Known
<1>2. \A m \in Nodes : SoundAt(tl[m], cs, m) /\ SlotShape(tl[m])
  BY Zenon, <1>1 DEF Sound, FewerAt, Fewer, Slots
<1> QED  BY Zenon, <1>2 DEF Sound, FewerAt, Slots

\* A task that is over leaves its end of the connection, and frees the name
\* when the other end has left as well.
LEMMA OverFacts ==
  ASSUME NEW cs, Conns(cs), NEW n \in Nodes, NEW k \in Keys,
         NEW ds, ds = Over(cs, n, k)
  PROVE  /\ Conns(ds) /\ \A j \in Keys \ {k} : ds[j] = cs[j]
         /\ ds[k].end[n].step \in Away
         /\ \/ \A m \in Nodes : ds[k].end[m].step \in Away /\ (m # n => cs[k].end[m].step \in Away)
            \/ /\ ds[k].hello = cs[k].hello
               /\ \A m \in Nodes \ {n} : ds[k].end[m] = cs[k].end[m]
<1>1. PICK e : e = [NewEnd("gone") EXCEPT !.link = "closed"]
  BY Zenon
<1>2. EndShape(e) /\ e.step = "gone"
  BY Zenon, <1>1 DEF EndShape, NewEnd
<1>3. PICK c : c = SetEnd(cs[k], n, e)
  BY Zenon
<1>4. ConnShape(cs[k])
  BY Zenon DEF Conns
<1>5. /\ ConnShape(c) /\ c.hello = cs[k].hello
      /\ \A m \in Nodes : c.end[m] = IF m = n THEN e ELSE cs[k].end[m]
  BY <1>2, <1>3, <1>4, EndSet
<1>6. ds = [cs EXCEPT ![k] = IF \A m \in Nodes : c.end[m].step \in {"none", "gone"}
                             THEN NoConn ELSE c]
  BY Zenon, <1>1, <1>3 DEF Over, SetEnd
<1>7. ConnShape(NoConn) /\ \A m \in Nodes : NoConn.end[m].step = "none"
  BY Zenon DEF ConnShape, NoConn, NewEnd, EndShape
<1>8. /\ ds = [j \in Keys |-> ds[j]] /\ \A j \in Keys \ {k} : ds[j] = cs[j]
      /\ ds[k] = IF \A m \in Nodes : c.end[m].step \in {"none", "gone"} THEN NoConn ELSE c
  BY Zenon, <1>6 DEF Conns
<1>9. ConnShape(ds[k])
  BY Zenon, <1>5, <1>7, <1>8
<1>10. Conns(ds)
  BY Zenon, <1>8, <1>9 DEF Conns
<1>11. CASE \A m \in Nodes : c.end[m].step \in {"none", "gone"}
  BY Zenon, <1>5, <1>7, <1>8, <1>10, <1>11 DEF Away
<1>12. CASE ~\A m \in Nodes : c.end[m].step \in {"none", "gone"}
  BY Zenon, <1>2, <1>5, <1>8, <1>10, <1>12 DEF Away
<1> QED  BY Zenon, <1>11, <1>12

\* A task may end when its key is no candidate any more.
LEMMA OverSound ==
  ASSUME NEW sl, NEW cs, NEW n \in Nodes, NEW k \in Keys,
         Sound(sl, cs), k \notin sl[n].candidates
  PROVE  Sound(sl, Over(cs, n, k))
<1>1. PICK ds : ds = Over(cs, n, k)
  BY Zenon
<1>2. Conns(cs)
  BY Zenon DEF Sound
<1>3. /\ Conns(ds) /\ \A j \in Keys \ {k} : ds[j] = cs[j]
      /\ ds[k].end[n].step \in Away
      /\ \/ \A m \in Nodes : ds[k].end[m].step \in Away /\ (m # n => cs[k].end[m].step \in Away)
         \/ /\ ds[k].hello = cs[k].hello
            /\ \A m \in Nodes \ {n} : ds[k].end[m] = cs[k].end[m]
  BY SMTT(30), <1>1, <1>2, OverFacts
<1>4. ASSUME NEW m \in Nodes  PROVE  SoundAt(sl[m], ds, m)
  <2>1. PICK s : s = sl[m]
    BY Zenon
  <2>2. SoundAt(s, cs, m) /\ s.candidates \subseteq Keys
    BY Zenon, <2>1 DEF Sound, Slots, SlotShape
  <2>3. k \in s.candidates => m # n /\ cs[k].end[m].step \notin Away
    BY Zenon, <2>1, <2>2 DEF SoundAt, Away, Greeting, Seen
  <2>4. \A j \in s.candidates : ds[j].end[m] = cs[j].end[m]
    BY Zenon, <1>3, <2>2, <2>3
  <2>5. SoundAt(s, ds, m)
    BY SMTT(30), <2>2, <2>4 DEF SoundAt
  <2> QED  BY Zenon, <2>1, <2>5
<1>5. HelloSound(ds[k], k)
  <2>1. k[1] \in Nodes /\ Other(k[1]) \in Nodes /\ HelloSound(cs[k], k)
    BY Zenon, KeyParts DEF Sound
  <2> QED  BY <1>3, <2>1 DEF HelloSound, Away, Greeting, Seen
<1>6. \A j \in Keys : HelloSound(ds[j], j)
  BY Zenon, <1>3, <1>5 DEF Sound
<1> QED  BY Zenon, <1>1, <1>3, <1>4, <1>6 DEF Sound

-----------------------------------------------------------------------------
(* The slots' side of the actions.                                         *)

Put(sl, n, t) == [sl EXCEPT ![n] = t]

\* A slot that loses candidates at most is an update that does so.
LEMMA PutFewer ==
  ASSUME NEW sl, Slots(sl), NEW n \in Nodes, NEW t, Fewer(sl[n], t)
  PROVE  FewerAt(sl, Put(sl, n, t), n) /\ Put(sl, n, t)[n] = t
BY Zenon DEF FewerAt, Slots, Put

Promoted(s) == s.primary # None => s.primary \in s.candidates

\* The fields that do not matter here.
LEMMA FieldsFewer ==
  ASSUME NEW s, SlotShape(s), Promoted(s), NEW x
  PROVE  /\ \A t : t = [s EXCEPT !.error = x] => Fewer(s, t)
         /\ \A t : t = [s EXCEPT !.spare = x] => Fewer(s, t)
         /\ \A t : t = [s EXCEPT !.accepted = x] => Fewer(s, t)
         /\ \A t : t = [s EXCEPT !.retired = x] /\ x \subseteq s.retired => Fewer(s, t)
<1>1. ASSUME NEW t, t = [s EXCEPT !.error = x]  PROVE  Fewer(s, t)
  BY Zenon, <1>1 DEF SlotShape, Fewer, Promoted
<1>2. ASSUME NEW t, t = [s EXCEPT !.spare = x]  PROVE  Fewer(s, t)
  BY Zenon, <1>2 DEF SlotShape, Fewer, Promoted
<1>3. ASSUME NEW t, t = [s EXCEPT !.accepted = x]  PROVE  Fewer(s, t)
  BY Zenon, <1>3 DEF SlotShape, Fewer, Promoted
<1>4. ASSUME NEW t, t = [s EXCEPT !.retired = x], x \subseteq s.retired  PROVE  Fewer(s, t)
  BY Zenon, <1>4 DEF SlotShape, Fewer, Promoted
<1> QED  BY Zenon, <1>1, <1>2, <1>3, <1>4

\* CandidateRegistry::remove.
LEMMA WithoutFewer ==
  ASSUME NEW s, SlotShape(s), Promoted(s), NEW keys
  PROVE  /\ Fewer(s, Without(s, keys)) /\ Promoted(Without(s, keys))
         /\ SlotShape(Without(s, keys))
         /\ Without(s, keys).candidates = s.candidates \ keys
<1>1. PICK t : t = Without(s, keys)
  BY Zenon
<1>2. PICK p : p = IF s.primary \in keys THEN None ELSE s.primary
  BY Zenon
<1>3. t = [s EXCEPT !.candidates = s.candidates \ keys, !.primary = p]
  BY Zenon, <1>1, <1>2 DEF Without
<1>4. /\ t.candidates = s.candidates \ keys /\ t.primary = p
      /\ t.current = s.current /\ t.retired = s.retired
      /\ t = [candidates |-> t.candidates, primary |-> t.primary,
              accepted |-> t.accepted, local |-> t.local, current |-> t.current,
              retired |-> t.retired, error |-> t.error, spare |-> t.spare,
              bare |-> t.bare]
  BY Zenon, <1>3 DEF SlotShape
<1>5. p # None => p = s.primary /\ p \in s.candidates \ keys
  BY Zenon, <1>2 DEF Promoted
<1>6. SlotShape(t)
  BY Zenon, <1>4 DEF SlotShape
<1> QED  BY Zenon, <1>1, <1>4, <1>5, <1>6 DEF Fewer, Promoted

\* Fewer of fewer is fewer.
LEMMA FewerTwice ==
  ASSUME NEW s, NEW t, NEW u, Fewer(s, t), Fewer(t, u)  PROVE  Fewer(s, u)
BY Zenon DEF Fewer

\* remove_candidate, candidate_closed.
LEMMA ForgetFewer ==
  ASSUME NEW s, SlotShape(s), Promoted(s), NEW keys
  PROVE  /\ Fewer(s, Forget(s, keys)) /\ Promoted(Forget(s, keys))
         /\ SlotShape(Forget(s, keys))
         /\ Forget(s, keys).candidates = s.candidates \ keys
<1>1. PICK w : w = Without(s, keys)
  BY Zenon
<1>2. /\ Fewer(s, w) /\ Promoted(w) /\ SlotShape(w) /\ w.candidates = s.candidates \ keys
  BY Zenon, <1>1, WithoutFewer
<1>3. PICK x : x = IF w.candidates = {} THEN None ELSE w.accepted
  BY Zenon
<1>4. PICK t : t = Forget(s, keys)
  BY Zenon
<1>5. t = [w EXCEPT !.accepted = x]
  BY Zenon, <1>1, <1>3, <1>4 DEF Forget
<1>6. Fewer(w, t)
  BY Zenon, <1>2, <1>5, FieldsFewer
<1>7. t.candidates = w.candidates
  BY Zenon, <1>2, <1>5 DEF SlotShape
<1>8. SlotShape(t) /\ Promoted(t)
  BY Zenon, <1>6 DEF Fewer, Promoted
<1> QED  BY Zenon, <1>2, <1>4, <1>6, <1>7, <1>8, FewerTwice

\* PeerState::close_candidates.
LEMMA CloseFewer ==
  ASSUME NEW s, SlotShape(s)  PROVE  Fewer(s, CloseCandidates(s))
<1>1. PICK t : t = CloseCandidates(s)
  BY Zenon
<1>2. t = [s EXCEPT !.candidates = {}, !.primary = None, !.accepted = None, !.spare = FALSE]
  BY Zenon, <1>1 DEF CloseCandidates
<1>3. /\ t.candidates = {} /\ t.primary = None
      /\ t.current = s.current /\ t.retired = s.retired
      /\ t = [candidates |-> t.candidates, primary |-> t.primary,
              accepted |-> t.accepted, local |-> t.local, current |-> t.current,
              retired |-> t.retired, error |-> t.error, spare |-> t.spare,
              bare |-> t.bare]
  BY Zenon, <1>2 DEF SlotShape
<1> QED  BY Zenon, <1>1, <1>3 DEF Fewer, SlotShape

\* What the invariant says of one slot and one connection.
LEMMA SoundParts ==
  ASSUME NEW sl, NEW cs, Sound(sl, cs), NEW n \in Nodes
  PROVE  /\ Slots(sl) /\ Conns(cs) /\ SlotShape(sl[n]) /\ Promoted(sl[n])
         /\ SoundAt(sl[n], cs, n)
BY Zenon DEF Sound, Slots, SoundAt, Promoted

-----------------------------------------------------------------------------
(* The actions.                                                            *)

\* What a step owes.
Stepped == BrokerInv'

\* Only candidates are lost, and every task stays where it is.
LEMMA QuietSteps ==
  ASSUME BrokerInv, NEW n \in Nodes, FewerAt(slot, slot', n) \/ slot' = slot,
         Same(conn, conn', n) \/ conn' = conn
  PROVE  Stepped
<1>1. PICK tl : tl = slot'
  BY Zenon
<1>2. PICK ds : ds = conn'
  BY Zenon
<1>3. Sound(tl, conn)
  BY Zenon, <1>1, FewerSound DEF BrokerInv
<1>4. Sound(tl, ds)
  BY Zenon, <1>2, <1>3, SameSound
<1> QED  BY Zenon, <1>1, <1>2, <1>4 DEF Stepped, BrokerInv

\* A change of one field of a slot that the invariant does not read.
LEMMA FieldSet ==
  ASSUME BrokerInv, NEW n \in Nodes, NEW x,
         \/ slot' = [slot EXCEPT ![n].error = x]
         \/ slot' = [slot EXCEPT ![n].spare = x]
         \/ slot' = [slot EXCEPT ![n].retired = x] /\ x \subseteq slot[n].retired
  PROVE  FewerAt(slot, slot', n)
<1>1. Slots(slot) /\ SlotShape(slot[n]) /\ Promoted(slot[n])
  BY Zenon, SoundParts DEF BrokerInv
<1>2. PICK s : s = slot[n]
  BY Zenon
<1>3. ASSUME NEW t, Fewer(s, t), slot' = Put(slot, n, t)  PROVE  FewerAt(slot, slot', n)
  BY Zenon, <1>1, <1>2, <1>3, PutFewer
<1>4. CASE slot' = [slot EXCEPT ![n].error = x]
  <2>1. PICK t : t = [s EXCEPT !.error = x]
    BY Zenon
  <2>2. slot' = Put(slot, n, t)
    BY Zenon, <1>2, <1>4, <2>1 DEF Put
  <2>3. Fewer(s, t)
    BY Zenon, <1>1, <1>2, <2>1, FieldsFewer
  <2> QED  BY Zenon, <1>3, <2>2, <2>3
<1>5. CASE slot' = [slot EXCEPT ![n].spare = x]
  <2>1. PICK t : t = [s EXCEPT !.spare = x]
    BY Zenon
  <2>2. slot' = Put(slot, n, t)
    BY Zenon, <1>2, <1>5, <2>1 DEF Put
  <2>3. Fewer(s, t)
    BY Zenon, <1>1, <1>2, <2>1, FieldsFewer
  <2> QED  BY Zenon, <1>3, <2>2, <2>3
<1>6. CASE slot' = [slot EXCEPT ![n].retired = x] /\ x \subseteq slot[n].retired
  <2>1. PICK t : t = [s EXCEPT !.retired = x]
    BY Zenon
  <2>2. slot' = Put(slot, n, t)
    BY Zenon, <1>2, <1>6, <2>1 DEF Put
  <2>3. Fewer(s, t)
    BY Zenon, <1>1, <1>2, <1>6, <2>1, FieldsFewer
  <2> QED  BY Zenon, <1>3, <2>2, <2>3
<1> QED  BY Zenon, <1>4, <1>5, <1>6

\* The dial worker, but for the connection it makes.
LEMMA WorkerSteps ==
  ASSUME BrokerInv, NEW n \in Nodes,
         \/ WorkerLoop(n) \/ WorkerWakes(n) \/ DialOnce(n) \/ DialCancelled(n)
         \/ DialFails(n) \/ DialEnded(n) \/ BackoffEnds(n) \/ WorkerLeaves(n)
  PROVE  Stepped
<1>1. CASE UNCHANGED <<slot, conn>>
  BY Zenon, <1>1, QuietSteps
<1>2. Same(conn, Wake(conn, n), n)
  BY Zenon, SoundParts, WakeSame DEF BrokerInv
<1>3. ASSUME NEW x, slot' = [slot EXCEPT ![n].error = x] \/ slot' = [slot EXCEPT ![n].spare = x],
             conn' = conn \/ conn' = Wake(conn, n)
      PROVE  Stepped
  BY Zenon, <1>2, <1>3, FieldSet, QuietSteps
<1>4. CASE WorkerLoop(n) \/ WorkerWakes(n) \/ DialCancelled(n) \/ DialFails(n) \/ WorkerLeaves(n)
  BY Zenon, <1>1, <1>4 DEF WorkerLoop, WorkerWakes, DialCancelled, DialFails, WorkerLeaves
<1>5. CASE DialOnce(n)
  BY Zenon, <1>1, <1>3, <1>5 DEF DialOnce
<1>6. CASE DialEnded(n)
  BY Zenon, <1>1, <1>3, <1>6 DEF DialEnded
<1>7. CASE BackoffEnds(n)
  <2>1. PICK x : slot' = [slot EXCEPT ![n].error = x]
    BY Zenon, <1>7 DEF BackoffEnds
  <2> QED  BY Zenon, <1>3, <1>7, <2>1 DEF BackoffEnds
<1> QED  BY Zenon, <1>4, <1>5, <1>6, <1>7

\* Consumers.
LEMMA UserSteps ==
  ASSUME BrokerInv, NEW n \in Nodes, NEW u \in Users,
         \/ AcquireDemand(n, u) \/ UserStep(n, u) \/ UserDeadline(n, u)
         \/ ReleaseDemand(n, u) \/ RetireFailedCandidate(n, u)
  PROVE  Stepped
<1>1. CASE UNCHANGED <<slot, conn>>
  BY Zenon, <1>1, QuietSteps
<1>2. /\ Conns(conn) /\ Slots(slot) /\ SlotShape(slot[n]) /\ Promoted(slot[n])
      /\ Same(conn, Wake(conn, n), n)
  BY Zenon, SoundParts, WakeSame DEF BrokerInv
<1>3. ASSUME NEW keys  PROVE  Same(conn, Wake(Cancel(conn, n, keys, FALSE), n), n)
  <2>1. PICK cs : cs = Cancel(conn, n, keys, FALSE)
    BY Zenon
  <2>2. Same(conn, cs, n) /\ Conns(cs)
    <3>1. Same(conn, cs, n)
      BY Zenon, <1>2, <2>1, CancelSame
    <3> QED  BY Zenon, <3>1 DEF Same
  <2>3. Same(cs, Wake(cs, n), n)
    BY Zenon, <2>2, WakeSame
  <2> QED  BY Zenon, <2>1, <2>2, <2>3, SameTwice
<1>4. CASE AcquireDemand(n, u) \/ CheckPrimary(n, u) \/ UserDeadline(n, u)
  BY Zenon, <1>1, <1>4 DEF AcquireDemand, CheckPrimary, UserDeadline
<1>5. CASE BeginDemand(n, u)
  <2>1. PICK x : slot' = [slot EXCEPT ![n].error = x]
    BY Zenon, <1>5 DEF BeginDemand
  <2>2. conn' = Wake(conn, n)
    BY Zenon, <1>5 DEF BeginDemand
  <2> QED  BY Zenon, <1>2, <2>1, <2>2, FieldSet, QuietSteps
<1>6. CASE ReleaseDemand(n, u)
  BY Zenon, <1>2, <1>6, QuietSteps DEF ReleaseDemand
<1>7. CASE OpenBi(n, u)
  <2>1. PICK k : k = user[u].key
    BY Zenon
  <2>2. CASE slot' = [slot EXCEPT ![n] = Forget(slot[n], {k})]
             /\ conn' = Wake(Cancel(conn, n, {k}, FALSE), n)
    <3>1. slot' = Put(slot, n, Forget(slot[n], {k}))
      BY Zenon, <2>2 DEF Put
    <3>2. FewerAt(slot, slot', n)
      BY Zenon, <1>2, <3>1, ForgetFewer, PutFewer
    <3> QED  BY Zenon, <1>3, <2>2, <3>2, QuietSteps
  <2> QED  BY Zenon, <1>1, <1>7, <2>1, <2>2 DEF OpenBi, CandidateClosed
<1>8. CASE RetireFailedCandidate(n, u)
  <2>1. PICK k : k = user[u].key
    BY Zenon
  <2>2. ASSUME NEW spare, slot' = [slot EXCEPT ![n] = [Forget(slot[n], {k}) EXCEPT !.spare = spare]],
               conn' = Wake(Cancel(conn, n, {k}, FALSE), n)
        PROVE  Stepped
    <3>1. PICK w : w = Forget(slot[n], {k})
      BY Zenon
    <3>2. PICK t : t = [w EXCEPT !.spare = spare]
      BY Zenon
    <3>3. Fewer(slot[n], w) /\ SlotShape(w) /\ Promoted(w)
      BY Zenon, <1>2, <3>1, ForgetFewer
    <3>4. Fewer(w, t)
      BY Zenon, <3>2, <3>3, FieldsFewer
    <3>5. Fewer(slot[n], t)
      BY Zenon, <3>3, <3>4, FewerTwice
    <3>6. slot' = Put(slot, n, t)
      BY Zenon, <2>2, <3>1, <3>2 DEF Put
    <3>7. FewerAt(slot, slot', n)
      BY Zenon, <1>2, <3>5, <3>6, PutFewer
    <3> QED  BY Zenon, <1>3, <2>2, <3>7, QuietSteps
  <2> QED  BY Zenon, <1>1, <1>8, <2>1, <2>2 DEF RetireFailedCandidate
<1> QED  BY Zenon, <1>4, <1>5, <1>6, <1>7, <1>8 DEF UserStep

\* The endpoint, its supervisor, the authorization of the other end, and a
\* link that is lost; but for a restart.
LEMMA OutsideSteps ==
  ASSUME BrokerInv, NEW n \in Nodes,
         \/ DetachEndpoint(n) \/ AttachEndpoint(n) \/ Quiesce(n) \/ Revoke(n)
         \/ \E i \in Incarnations : ExpireRetired(n, <<Other(n), i>>)
  PROVE  Stepped
<1>1. /\ Conns(conn) /\ Slots(slot) /\ SlotShape(slot[n]) /\ Promoted(slot[n])
      /\ Same(conn, Wake(conn, n), n)
  BY Zenon, SoundParts, WakeSame DEF BrokerInv
<1>2. ASSUME NEW u, CloseRemote(n, u)  PROVE  Stepped
  <2>1. PICK cs : cs = Cancel(conn, n, slot[n].candidates, u)
    BY Zenon
  <2>2. Same(conn, cs, n) /\ Conns(cs)
    BY SMTT(30), <1>1, <2>1, CancelSame DEF Same
  <2>3. Same(cs, Wake(cs, n), n)
    BY Zenon, <2>2, WakeSame
  <2>4. conn' = Wake(cs, n) /\ slot' = Put(slot, n, CloseCandidates(slot[n]))
    BY Zenon, <1>2, <2>1 DEF CloseRemote, Put
  <2>5. Same(conn, conn', n)
    BY Zenon, <2>2, <2>3, <2>4, SameTwice
  <2>6. FewerAt(slot, slot', n)
    BY Zenon, <1>1, <2>4, CloseFewer, PutFewer
  <2> QED  BY Zenon, <2>5, <2>6, QuietSteps
<1>3. CASE DetachEndpoint(n) \/ Quiesce(n) \/ Revoke(n)
  BY Zenon, <1>2, <1>3 DEF DetachEndpoint, Quiesce, Revoke
<1>4. CASE AttachEndpoint(n)
  <2>1. PICK x : slot' = [slot EXCEPT ![n].error = x]
    BY Zenon, <1>4 DEF AttachEndpoint
  <2>2. conn' = Wake(conn, n)
    BY Zenon, <1>4 DEF AttachEndpoint
  <2> QED  BY Zenon, <1>1, <2>1, <2>2, FieldSet, QuietSteps
<1>5. ASSUME NEW inc, ExpireRetired(n, inc)  PROVE  Stepped
  <2>1. PICK x : x = slot[n].retired \ {inc}
    BY Zenon
  <2>2. slot' = [slot EXCEPT ![n].retired = x] /\ x \subseteq slot[n].retired /\ conn' = conn
    BY Zenon, <1>5, <2>1 DEF ExpireRetired
  <2> QED  BY Zenon, <2>2, FieldSet, QuietSteps
<1> QED  BY Zenon, <1>3, <1>4, <1>5

-----------------------------------------------------------------------------
(* The tasks' side of the actions.                                         *)

PutConn(cs, k, c) == [cs EXCEPT ![k] = c]

\* A change of one connection.
LEMMA ConnPut ==
  ASSUME NEW cs, Conns(cs), NEW k \in Keys, NEW c, ConnShape(c)
  PROVE  /\ Conns(PutConn(cs, k, c)) /\ PutConn(cs, k, c)[k] = c
         /\ \A j \in Keys \ {k} : PutConn(cs, k, c)[j] = cs[j]
BY Zenon DEF Conns, PutConn

\* The task of n at k goes on; nothing else moves.
Goes(cs, ds, n, k, step) ==
  /\ Conns(ds) /\ \A j \in Keys \ {k} : ds[j] = cs[j]
  /\ \A m \in Nodes : ds[k].end[m].saw = cs[k].end[m].saw
  /\ \A m \in Nodes \ {n} : ds[k].end[m].step = cs[k].end[m].step
  /\ ds[k].end[n].step = step

\* Its step is changed.
LEMMA TurnGoes ==
  ASSUME NEW cs, Conns(cs), NEW n \in Nodes, NEW k \in Keys, NEW step,
         NEW b, ConnShape(b), b.end = cs[k].end,
         NEW ds, ds = PutConn(cs, k, Turn(b, n, step))
  PROVE  Goes(cs, ds, n, k, step) /\ ds[k].hello = b.hello
<1>1. PICK c : c = Turn(b, n, step)
  BY Zenon
<1>2. /\ ConnShape(c) /\ c.hello = b.hello
      /\ \A m \in Nodes : /\ c.end[m].saw = b.end[m].saw
                          /\ c.end[m].step = IF m = n THEN step ELSE b.end[m].step
  BY <1>1, EndTurned
<1>3. Conns(ds) /\ ds[k] = c /\ \A j \in Keys \ {k} : ds[j] = cs[j]
  BY <1>1, <1>2, ConnPut
<1> QED  BY <1>2, <1>3 DEF Goes

\* A step and nothing else.
StepTo(cs, n, k, step) == [cs EXCEPT ![k].end[n].step = step]

\* Its task goes on.
LEMMA StepGoes ==
  ASSUME NEW cs, Conns(cs), NEW n \in Nodes, NEW k \in Keys, NEW step,
         NEW ds, ds = StepTo(cs, n, k, step)
  PROVE  Goes(cs, ds, n, k, step) /\ ds[k].hello = cs[k].hello
<1>1. PICK b : b = cs[k]
  BY Zenon
<1>2. ConnShape(b)
  BY Zenon, <1>1 DEF Conns
<1>3. ds = PutConn(cs, k, Turn(b, n, step))
  BY Zenon, <1>1 DEF PutConn, Turn, StepTo
<1>4. Goes(cs, ds, n, k, step) /\ ds[k].hello = b.hello
  BY <1>1, <1>2, <1>3, TurnGoes
<1> QED  BY Zenon, <1>1, <1>4

\* A step, and the Hello is sent.
HelloTo(cs, n, k, step, x) == [cs EXCEPT ![k].hello = x, ![k].end[n].step = step]

\* Its task goes on.
LEMMA HelloGoes ==
  ASSUME NEW cs, Conns(cs), NEW n \in Nodes, NEW k \in Keys, NEW step, NEW x,
         NEW ds, ds = HelloTo(cs, n, k, step, x)
  PROVE  Goes(cs, ds, n, k, step)
<1>1. ConnShape(cs[k])
  BY Zenon DEF Conns
<1>2. PICK b : b = [cs[k] EXCEPT !.hello = x]
  BY Zenon
<1>3. ConnShape(b) /\ b.end = cs[k].end
  BY Zenon, <1>1, <1>2 DEF ConnShape
<1>4. PICK as : as = [cs EXCEPT ![k].hello = x]
  BY Zenon
<1>5. as[k] = b
  BY Zenon, <1>2, <1>4 DEF Conns
<1>6. ds = [as EXCEPT ![k].end[n].step = step]
  BY Zenon, <1>4 DEF HelloTo
<1>7. ds = PutConn(cs, k, Turn(b, n, step))
  BY Zenon, <1>4, <1>5, <1>6 DEF PutConn, Turn, Conns
<1>8. Goes(cs, ds, n, k, step) /\ ds[k].hello = b.hello
  BY <1>3, <1>7, TurnGoes
<1> QED  BY Zenon, <1>3, <1>8

\* A step, and the Welcome is sent.
WelcomeTo(cs, n, k, step, x) == [cs EXCEPT ![k].welcome = x, ![k].end[n].step = step]

\* Its task goes on.
LEMMA WelcomeGoes ==
  ASSUME NEW cs, Conns(cs), NEW n \in Nodes, NEW k \in Keys, NEW step, NEW x,
         NEW ds, ds = WelcomeTo(cs, n, k, step, x)
  PROVE  Goes(cs, ds, n, k, step) /\ ds[k].hello = cs[k].hello
<1>1. ConnShape(cs[k])
  BY Zenon DEF Conns
<1>2. PICK b : b = [cs[k] EXCEPT !.welcome = x]
  BY Zenon
<1>3. ConnShape(b) /\ b.end = cs[k].end /\ b.hello = cs[k].hello
  BY Zenon, <1>1, <1>2 DEF ConnShape
<1>4. PICK as : as = [cs EXCEPT ![k].welcome = x]
  BY Zenon
<1>5. as[k] = b
  BY Zenon, <1>2, <1>4 DEF Conns
<1>6. ds = [as EXCEPT ![k].end[n].step = step]
  BY Zenon, <1>4 DEF WelcomeTo
<1>7. ds = PutConn(cs, k, Turn(b, n, step))
  BY Zenon, <1>4, <1>5, <1>6 DEF PutConn, Turn, Conns
<1>8. Goes(cs, ds, n, k, step) /\ ds[k].hello = b.hello
  BY <1>3, <1>7, TurnGoes
<1> QED  BY Zenon, <1>3, <1>8

\* A step, and the Welcome is known to have arrived.
DeliveredTo(cs, n, k, step, x) == [cs EXCEPT ![k].delivered = x, ![k].end[n].step = step]

\* Its task goes on.
LEMMA DeliveredGoes ==
  ASSUME NEW cs, Conns(cs), NEW n \in Nodes, NEW k \in Keys, NEW step, NEW x,
         NEW ds, ds = DeliveredTo(cs, n, k, step, x)
  PROVE  Goes(cs, ds, n, k, step) /\ ds[k].hello = cs[k].hello
<1>1. ConnShape(cs[k])
  BY Zenon DEF Conns
<1>2. PICK b : b = [cs[k] EXCEPT !.delivered = x]
  BY Zenon
<1>3. ConnShape(b) /\ b.end = cs[k].end /\ b.hello = cs[k].hello
  BY Zenon, <1>1, <1>2 DEF ConnShape
<1>4. PICK as : as = [cs EXCEPT ![k].delivered = x]
  BY Zenon
<1>5. as[k] = b
  BY Zenon, <1>2, <1>4 DEF Conns
<1>6. ds = [as EXCEPT ![k].end[n].step = step]
  BY Zenon, <1>4 DEF DeliveredTo
<1>7. ds = PutConn(cs, k, Turn(b, n, step))
  BY Zenon, <1>4, <1>5, <1>6 DEF PutConn, Turn, Conns
<1>8. Goes(cs, ds, n, k, step) /\ ds[k].hello = b.hello
  BY <1>3, <1>7, TurnGoes
<1> QED  BY Zenon, <1>3, <1>8

\* A task that goes on keeps the invariant: it stays a greeting or stays past
\* it, and what is said of the Hello stays true.
LEMMA GoesSound ==
  ASSUME NEW sl, NEW cs, NEW ds, NEW n \in Nodes, NEW k \in Keys, NEW step,
         Sound(sl, cs), Goes(cs, ds, n, k, step), HelloSound(ds[k], k),
         k \in sl[n].candidates =>
           \/ cs[k].end[n].step \in Greeting /\ step \in Greeting
           \/ cs[k].end[n].step \in Seen /\ step \in Seen
  PROVE  Sound(sl, ds)
<1>1. ASSUME NEW m \in Nodes  PROVE  SoundAt(sl[m], ds, m)
  <2>1. PICK s : s = sl[m]
    BY Zenon
  <2>2. SoundAt(s, cs, m) /\ s.candidates \subseteq Keys
    BY Zenon, <2>1 DEF Sound, Slots, SlotShape
  <2>3. \A j \in s.candidates :
          /\ ds[j].end[m].saw = cs[j].end[m].saw
          /\ \/ ds[j].end[m].step = cs[j].end[m].step
             \/ cs[j].end[m].step \in Greeting /\ ds[j].end[m].step \in Greeting
             \/ cs[j].end[m].step \in Seen /\ ds[j].end[m].step \in Seen
    BY Zenon, <2>1, <2>2 DEF Goes
  <2>4. \A j \in s.candidates :
             \/ ds[j].end[m].step \in Greeting /\ ds[j].end[m].saw = None
             \/ /\ ds[j].end[m].step \in Seen
                /\ Known(s, ds[j].end[m].saw)
    <3> TAKE j \in s.candidates
    <3>1. \/ cs[j].end[m].step \in Greeting /\ cs[j].end[m].saw = None
          \/ /\ cs[j].end[m].step \in Seen
             /\ Known(s, cs[j].end[m].saw)
      BY Zenon, <2>2 DEF SoundAt
    <3> QED  BY <2>3, <3>1 DEF Seen, Greeting
  <2>5. s.primary # None => s.primary \in s.candidates /\ ds[s.primary].end[m].step \in Seen
    BY Zenon, <2>2, <2>3 DEF SoundAt, Seen, Greeting
  <2>6. SoundAt(s, ds, m)
    BY Zenon, <2>2, <2>4, <2>5 DEF SoundAt
  <2> QED  BY Zenon, <2>1, <2>6
<1>2. \A j \in Keys : HelloSound(ds[j], j)
  BY Zenon DEF Sound, Goes
<1> QED  BY Zenon, <1>1, <1>2 DEF Sound, Goes

-----------------------------------------------------------------------------
(* Tasks that end.                                                         *)

\* What the next state has to be shown to be.
LEMMA SteppedIf ==
  ASSUME NEW tl, tl = slot', NEW ds, ds = conn', Sound(tl, ds)
  PROVE  Stepped
BY Zenon DEF Stepped, BrokerInv

\* The connection is closed, and its task with it.
Closed(cs, n, k, u) == Over(Cancel(cs, n, {k}, u), n, k)

\* The task of a candidate ends with the candidate: Forget or Without, then
\* the connection is closed and its waiters are woken.
LEMMA RemovalSound ==
  ASSUME NEW sl, NEW cs, Sound(sl, cs), NEW n \in Nodes, NEW k \in Keys, NEW u,
         NEW t, Fewer(sl[n], t), k \notin t.candidates
  PROVE  /\ Sound(Put(sl, n, t), Closed(cs, n, k, u))
         /\ Sound(Put(sl, n, t), Wake(Closed(cs, n, k, u), n))
<1>1. Slots(sl) /\ Conns(cs)
  BY Zenon DEF Sound
<1>2. PICK tl : tl = Put(sl, n, t)
  BY Zenon
<1>3. FewerAt(sl, tl, n) /\ tl[n] = t
  BY Zenon, <1>1, <1>2, PutFewer
<1>4. PICK ds : ds = Cancel(cs, n, {k}, u)
  BY Zenon
<1>5. Same(cs, ds, n)
  BY Zenon, <1>1, <1>4, CancelSame
<1>6. Sound(sl, ds)
  BY Zenon, <1>5, SameSound
<1>7. Sound(tl, ds)
  BY Zenon, <1>3, <1>6, FewerSound
<1>8. PICK es : es = Closed(cs, n, k, u)
  BY Zenon
<1>9. Sound(tl, es)
  BY Zenon, <1>3, <1>4, <1>7, <1>8, OverSound DEF Closed
<1>10. Same(es, Wake(es, n), n)
  BY Zenon, <1>9, WakeSame DEF Sound
<1>11. Sound(tl, Wake(es, n))
  BY Zenon, <1>9, <1>10, SameSound
<1> QED  BY Zenon, <1>2, <1>8, <1>9, <1>11

\* remove_candidate, or candidate_closed, at the end of the task.
LEMMA ForgetSteps ==
  ASSUME BrokerInv, NEW n \in Nodes, NEW k \in Keys, NEW u,
         slot' = Put(slot, n, Forget(slot[n], {k})),
         conn' = Wake(Closed(conn, n, k, u), n)
  PROVE  Stepped
<1>1. SlotShape(slot[n]) /\ Promoted(slot[n]) /\ Sound(slot, conn)
  BY Zenon, SoundParts DEF BrokerInv
<1>2. PICK t : t = Forget(slot[n], {k})
  BY Zenon
<1>3. Fewer(slot[n], t) /\ k \notin t.candidates
  BY <1>1, <1>2, ForgetFewer
<1>4. Sound(Put(slot, n, t), Wake(Closed(conn, n, k, u), n))
  BY <1>1, <1>3, RemovalSound
<1> QED  BY Zenon, <1>2, <1>4, SteppedIf

\* remove_candidate.
LEMMA RemoveSteps ==
  ASSUME BrokerInv, NEW n \in Nodes, NEW k \in Keys, NEW u, RemoveCandidate(n, k, u)
  PROVE  Stepped
<1>1. slot' = Put(slot, n, Forget(slot[n], {k}))
  BY Zenon DEF RemoveCandidate, Put
<1>2. conn' = Wake(Closed(conn, n, k, u), n)
  BY Zenon DEF RemoveCandidate, Closed
<1> QED  BY Zenon, <1>1, <1>2, ForgetSteps

\* The steps that end a task: run_connection_actor's end, a handshake that
\* fails before its candidate exists, arbitration that is lost.
LEMMA EndingSteps ==
  ASSUME BrokerInv, NEW n \in Nodes, NEW k \in Keys,
         \/ HandshakeFails(n, k) \/ DeliveryFails(n, k) \/ WaitTimesOut(n, k)
         \/ ActorEnds(n, k) \/ AcceptFails(n, k)
  PROVE  Stepped
<1>1. /\ SlotShape(slot[n]) /\ Promoted(slot[n]) /\ Sound(slot, conn)
      /\ SoundAt(slot[n], conn, n)
  BY Zenon, SoundParts DEF BrokerInv
<1>2. CASE HandshakeFails(n, k) \/ DeliveryFails(n, k) \/ WaitTimesOut(n, k)
  BY Zenon, <1>2, RemoveSteps DEF HandshakeFails, DeliveryFails, WaitTimesOut
<1>3. CASE ActorEnds(n, k)
  <2>1. slot' = Put(slot, n, Forget(slot[n], {k}))
    BY Zenon, <1>3 DEF ActorEnds, CandidateClosed, Put
  <2>2. conn' = Wake(Closed(conn, n, k, Linked(n, k)), n)
    BY Zenon, <1>3 DEF ActorEnds, Closed
  <2> QED  BY Zenon, <2>1, <2>2, ForgetSteps
<1>4. CASE AcceptFails(n, k)
  <2>1. k \notin slot[n].candidates
    BY Zenon, <1>1, <1>4 DEF AcceptFails, SoundAt, Step, End, Greeting, Seen
  <2>2. PICK ds : ds = conn'
    BY Zenon
  <2>3. Sound(slot, ds)
    BY Zenon, <1>1, <1>4, <2>1, <2>2, OverSound DEF AcceptFails
  <2> QED  BY Zenon, <1>4, <2>2, <2>3, SteppedIf DEF AcceptFails
<1> QED  BY Zenon, <1>2, <1>3, <1>4

\* A link that is lost tells nobody yet.
LEMMA LinkSteps ==
  ASSUME BrokerInv, NEW n \in Nodes, NEW k \in Keys, LinkLost(n, k)
  PROVE  Stepped
<1>1. Conns(conn) /\ ConnShape(conn[k])
  BY Zenon DEF BrokerInv, Sound, Conns
<1>2. PICK e : e = [conn[k].end[n] EXCEPT !.link = "lost"]
  BY Zenon
<1>3. EndShape(e) /\ e.step = conn[k].end[n].step /\ e.saw = conn[k].end[n].saw
  <2>1. EndShape(conn[k].end[n])
    BY Zenon, <1>1 DEF ConnShape
  <2> QED  BY <1>2, <2>1, EndRewritten
<1>4. PICK c : c = SetEnd(conn[k], n, e)
  BY Zenon
<1>5. /\ ConnShape(c) /\ c.hello = conn[k].hello
      /\ \A m \in Nodes : c.end[m] = IF m = n THEN e ELSE conn[k].end[m]
  BY <1>1, <1>3, <1>4, EndSet
<1>6. PICK ds : ds = conn'
  BY Zenon
<1>7. ds = PutConn(conn, k, c)
  BY Zenon, <1>2, <1>4, <1>6 DEF LinkLost, PutConn, SetEnd
<1>8. Conns(ds) /\ ds[k] = c /\ \A j \in Keys \ {k} : ds[j] = conn[j]
  BY <1>1, <1>5, <1>7, ConnPut
<1>9. Same(conn, ds, n)
  BY Zenon, <1>3, <1>5, <1>8 DEF Same
<1> QED  BY Zenon, <1>6, <1>9, QuietSteps DEF LinkLost

-----------------------------------------------------------------------------
(* Tasks that go on.                                                       *)

\* A slot whose acceptance and error change.
LEMMA AcceptedFewer ==
  ASSUME NEW s, SlotShape(s), Promoted(s), NEW x, NEW y,
         NEW t, t = [s EXCEPT !.accepted = x, !.error = y]
  PROVE  Fewer(s, t)
BY Zenon DEF SlotShape, Fewer, Promoted

\* The greeting and the arbitration, step by step.
LEMMA GreetingSteps ==
  ASSUME BrokerInv, NEW n \in Nodes, NEW k \in Keys,
         \/ SendHello(n, k) \/ ReceiveHello(n, k) \/ SendWelcome(n, k)
         \/ AwaitDelivery(n, k) \/ WaitForNotify(n, k) \/ RecordAcceptance(n, k)
  PROVE  Stepped
<1>1. /\ Sound(slot, conn) /\ Conns(conn) /\ Slots(slot)
      /\ SlotShape(slot[n]) /\ Promoted(slot[n])
      /\ SoundAt(slot[n], conn, n) /\ HelloSound(conn[k], k)
  BY Zenon, SoundParts DEF BrokerInv, Sound
<1>2. /\ k[1] \in Nodes /\ Other(k[1]) \in Nodes /\ Other(k[1]) # k[1]
      /\ n = k[1] \/ n = Other(k[1])
  BY DEF Keys, Nodes, Other
<1>3. PICK ds : ds = conn'
  BY Zenon
<1>4. ASSUME NEW step, Goes(conn, ds, n, k, step), HelloSound(ds[k], k), slot' = slot,
             k \in slot[n].candidates =>
               \/ conn[k].end[n].step \in Greeting /\ step \in Greeting
               \/ conn[k].end[n].step \in Seen /\ step \in Seen
      PROVE  Stepped
  <2>1. Sound(slot, ds)
    BY Zenon, <1>1, <1>4, GoesSound
  <2> QED  BY Zenon, <1>3, <1>4, <2>1, SteppedIf
<1>5. ASSUME NEW step, Goes(conn, ds, n, k, step), ds[k].hello = conn[k].hello,
             slot' = slot, conn[k].end[n].step \in Seen, step \in Seen
      PROVE  Stepped
  <2>1. HelloSound(ds[k], k)
    BY Zenon, <1>1, <1>2, <1>5 DEF HelloSound, Goes, Seen, Greeting
  <2> QED  BY Zenon, <1>4, <1>5, <2>1
<1>6. CASE SendHello(n, k)
  <2>1. Goes(conn, ds, n, k, "hello")
    <3>1. ds = HelloTo(conn, n, k, "hello", Identity(n))
      BY Zenon, <1>3, <1>6 DEF SendHello, HelloTo
    <3> QED  BY Zenon, <1>1, <3>1, HelloGoes
  <2>2. HelloSound(ds[k], k)
    BY Zenon, <1>1, <1>2, <1>6, <2>1 DEF HelloSound, Goes, SendHello, Outbound, Step, End, Seen, Greeting
  <2> QED  BY Zenon, <1>4, <1>6, <2>1, <2>2 DEF SendHello, Step, End, Greeting
<1>7. CASE ReceiveHello(n, k)
  <2>1. k \notin slot[n].candidates
    BY Zenon, <1>1, <1>7 DEF ReceiveHello, SoundAt, Step, End, Greeting, Seen
  <2>2. CASE admits[n]
    <3>1. Goes(conn, ds, n, k, "arrived") /\ ds[k].hello = conn[k].hello
      <4>1. ds = StepTo(conn, n, k, "arrived")
        BY Zenon, <1>3, <1>7, <2>2 DEF ReceiveHello, StepTo
      <4> QED  BY <1>1, <4>1, StepGoes
    <3>2. HelloSound(ds[k], k)
      BY Zenon, <1>1, <1>2, <1>7, <2>2, <3>1 DEF HelloSound, Goes, ReceiveHello, Step, End, Seen, Greeting
    <3> QED  BY Zenon, <1>4, <1>7, <2>1, <3>1, <3>2 DEF ReceiveHello
  <2>3. CASE ~admits[n]
    <3>1. PICK es : es = Cancel(conn, n, {k}, TRUE)
      BY Zenon
    <3>2. Sound(slot, es)
      BY Zenon, <1>1, <3>1, CancelSame, SameSound
    <3>3. ds = Over(es, n, k)
      BY Zenon, <1>3, <1>7, <2>3, <3>1 DEF ReceiveHello
    <3>4. Sound(slot, ds)
      BY Zenon, <2>1, <3>2, <3>3, OverSound
    <3> QED  BY Zenon, <1>3, <1>7, <3>4, SteppedIf DEF ReceiveHello
  <2> QED  BY Zenon, <2>2, <2>3
<1>8. CASE SendWelcome(n, k)
  <2>1. CASE Linked(n, k)
    <3>1. Goes(conn, ds, n, k, "sent") /\ ds[k].hello = conn[k].hello
      <4>1. ds = WelcomeTo(conn, n, k, "sent", Identity(n))
        BY Zenon, <1>3, <1>8, <2>1 DEF SendWelcome, WelcomeTo
      <4> QED  BY SMTT(30), <1>1, <4>1, WelcomeGoes
    <3> QED  BY Zenon, <1>5, <1>8, <2>1, <3>1 DEF SendWelcome, Step, End, Seen
  <2>2. CASE ~Linked(n, k)
    BY Zenon, <1>8, <2>2, RemoveSteps DEF SendWelcome
  <2> QED  BY Zenon, <2>1, <2>2
<1>9. CASE AwaitDelivery(n, k)
  <2>1. Goes(conn, ds, n, k, "ready") /\ ds[k].hello = conn[k].hello
    <3>1. PICK x : x = TRUE
      BY Zenon
    <3>2. ds = DeliveredTo(conn, n, k, "ready", x)
      BY Zenon, <1>3, <1>9, <3>1 DEF AwaitDelivery, DeliveredTo
    <3> QED  BY <1>1, <3>2, DeliveredGoes
  <2> QED  BY Zenon, <1>5, <1>9, <2>1 DEF AwaitDelivery, Step, End, Seen
<1>10. CASE WaitForNotify(n, k)
  <2>1. Goes(conn, ds, n, k, "waiting") /\ ds[k].hello = conn[k].hello
    <3>1. ds = StepTo(conn, n, k, "waiting")
      BY Zenon, <1>3, <1>10 DEF WaitForNotify, StepTo
    <3> QED  BY <1>1, <3>1, StepGoes
  <2> QED  BY Zenon, <1>5, <1>10, <2>1 DEF WaitForNotify, Step, End, Seen
<1>11. CASE RecordAcceptance(n, k)
  <2>1. PICK es : es = StepTo(conn, n, k, "ready")
    BY Zenon
  <2>2. Goes(conn, es, n, k, "ready") /\ es[k].hello = conn[k].hello
    BY <1>1, <2>1, StepGoes
  <2>3. conn[k].end[n].step = "observed"
    BY Zenon, <1>11 DEF RecordAcceptance, Step, End
  <2>4. HelloSound(es[k], k)
    BY Zenon, <1>1, <1>2, <2>2, <2>3 DEF HelloSound, Goes, Seen, Greeting
  <2>5. Sound(slot, es)
    BY Zenon, <1>1, <2>2, <2>3, <2>4, GoesSound DEF Seen
  <2>6. PICK t : t = [slot[n] EXCEPT !.accepted = conn[k].welcome, !.error = "none"]
    BY Zenon
  <2>7. Fewer(slot[n], t)
    BY Zenon, <1>1, <2>6, AcceptedFewer
  <2>8. PICK tl : tl = slot'
    BY Zenon
  <2>9. tl = Put(slot, n, t)
    BY Zenon, <1>11, <2>6, <2>8 DEF RecordAcceptance, Put
  <2>10. FewerAt(slot, tl, n)
    BY Zenon, <1>1, <2>7, <2>9, PutFewer
  <2>11. Sound(tl, es)
    BY Zenon, <2>5, <2>10, FewerSound
  <2>12. ds = Wake(es, n)
    BY Zenon, <1>3, <1>11, <2>1 DEF RecordAcceptance, StepTo
  <2>13. Same(es, ds, n)
    BY Zenon, <2>11, <2>12, WakeSame DEF Sound
  <2>14. Sound(tl, ds)
    BY Zenon, <2>11, <2>13, SameSound
  <2> QED  BY Zenon, <1>3, <2>8, <2>14, SteppedIf
<1> QED  BY Zenon, <1>6, <1>7, <1>8, <1>9, <1>10, <1>11

-----------------------------------------------------------------------------
(* Candidates that come, and owners that change.                           *)

\* One slot and the connection of one of its tasks change.
LEMMA TaskSound ==
  ASSUME NEW sl, NEW cs, Sound(sl, cs), NEW n \in Nodes, NEW k \in Keys, NEW ds,
         Conns(ds), \A j \in Keys \ {k} : ds[j] = cs[j], HelloSound(ds[k], k),
         \A m \in Nodes \ {n} : k \in sl[m].candidates =>
           ds[k].end[m].step = cs[k].end[m].step /\ ds[k].end[m].saw = cs[k].end[m].saw,
         NEW t, SlotShape(t), SoundAt(t, ds, n)
  PROVE  Sound(Put(sl, n, t), ds) /\ Put(sl, n, t)[n] = t
         /\ \A m \in Nodes \ {n} : Put(sl, n, t)[m] = sl[m]
<1>1. PICK tl : tl = Put(sl, n, t)
  BY Zenon
<1>2. Slots(tl) /\ tl[n] = t /\ \A m \in Nodes \ {n} : tl[m] = sl[m]
  BY Zenon, <1>1 DEF Sound, Slots, Put
<1>3. ASSUME NEW m \in Nodes \ {n}  PROVE  SoundAt(sl[m], ds, m)
  <2>1. PICK s : s = sl[m]
    BY Zenon
  <2>2. SoundAt(s, cs, m) /\ s.candidates \subseteq Keys
    BY Zenon, <2>1 DEF Sound, Slots, SlotShape
  <2>3. \A j \in s.candidates : /\ ds[j].end[m].step = cs[j].end[m].step
                                /\ ds[j].end[m].saw = cs[j].end[m].saw
    BY Zenon, <2>1, <2>2
  <2>4. SoundAt(s, ds, m)
    BY SMTT(30), <2>2, <2>3 DEF SoundAt
  <2> QED  BY Zenon, <2>1, <2>4
<1>4. \A m \in Nodes : SoundAt(tl[m], ds, m)
  BY Zenon, <1>2, <1>3
<1>5. \A j \in Keys : HelloSound(ds[j], j)
  BY Zenon DEF Sound
<1>6. Sound(tl, ds)
  BY Zenon, <1>2, <1>4, <1>5 DEF Sound
<1> QED  BY Zenon, <1>1, <1>2, <1>6

\* Only the slot changes.
LEMMA PutSound ==
  ASSUME NEW sl, NEW cs, Sound(sl, cs), NEW n \in Nodes, NEW t, SlotShape(t), SoundAt(t, cs, n)
  PROVE  Sound(Put(sl, n, t), cs) /\ Put(sl, n, t)[n] = t
         /\ \A m \in Nodes \ {n} : Put(sl, n, t)[m] = sl[m]
<1>1. PICK tl : tl = Put(sl, n, t)
  BY Zenon
<1>2. Slots(tl) /\ tl[n] = t /\ \A m \in Nodes \ {n} : tl[m] = sl[m]
  BY Zenon, <1>1 DEF Sound, Slots, Put
<1>3. \A m \in Nodes : SoundAt(tl[m], cs, m)
  BY Zenon, <1>2 DEF Sound
<1>4. Sound(tl, cs)
  BY Zenon, <1>2, <1>3 DEF Sound
<1> QED  BY Zenon, <1>1, <1>2, <1>4

\* mark_ready_and_decide and what promote_candidate makes of it.
LEMMA PromoteSteps ==
  ASSUME BrokerInv, NEW n \in Nodes, NEW k \in Keys, Promote(n, k)
  PROVE  Stepped
<1>1. /\ Sound(slot, conn) /\ Conns(conn) /\ Slots(slot)
      /\ SlotShape(slot[n]) /\ Promoted(slot[n])
      /\ SoundAt(slot[n], conn, n) /\ HelloSound(conn[k], k)
  BY Zenon, SoundParts DEF BrokerInv, Sound
<1>2. /\ k[1] \in Nodes /\ Other(k[1]) \in Nodes /\ Other(k[1]) # k[1]
      /\ n = k[1] \/ n = Other(k[1])
  BY DEF Keys, Nodes, Other
<1>3. PICK ds : ds = conn'
  BY Zenon
<1>4. conn[k].end[n].step = "ready"
  BY Zenon DEF Promote, Step, End
<1>5. CASE /\ k \notin slot[n].candidates
           /\ conn' = Over(Cancel(conn, n, {k}, FALSE), n, k) /\ slot' = slot
  <2>1. PICK es : es = Cancel(conn, n, {k}, FALSE)
    BY Zenon
  <2>2. Sound(slot, es)
    BY Zenon, <1>1, <2>1, CancelSame, SameSound
  <2>3. ds = Over(es, n, k)
    BY Zenon, <1>3, <1>5, <2>1
  <2>4. Sound(slot, ds)
    BY Zenon, <1>5, <2>2, <2>3, OverSound
  <2> QED  BY Zenon, <1>3, <1>5, <2>4, SteppedIf
<1>6. CASE /\ slot' = [slot EXCEPT ![n] = Without(@, {k})]
           /\ conn' = Wake(Over(Cancel(conn, n, {k}, FALSE), n, k), n)
  <2>1. PICK t : t = Without(slot[n], {k})
    BY Zenon
  <2>2. Fewer(slot[n], t) /\ k \notin t.candidates
    BY <1>1, <2>1, WithoutFewer
  <2>3. PICK u : u = FALSE
    BY Zenon
  <2>4. conn' = Wake(Closed(conn, n, k, u), n)
    BY Zenon, <1>6, <2>3 DEF Closed
  <2>5. slot' = Put(slot, n, t)
    BY Zenon, <1>6, <2>1 DEF Put
  <2>6. Sound(Put(slot, n, t), Wake(Closed(conn, n, k, u), n))
    BY <1>1, <2>2, RemovalSound
  <2> QED  BY Zenon, <2>4, <2>5, <2>6, SteppedIf
<1>7. CASE conn' = [conn EXCEPT ![k].end[n].step = "decided"] /\ slot' = slot
  <2>1. ds = StepTo(conn, n, k, "decided")
    BY Zenon, <1>3, <1>7 DEF StepTo
  <2>2. Goes(conn, ds, n, k, "decided") /\ ds[k].hello = conn[k].hello
    BY <1>1, <2>1, StepGoes
  <2>3. HelloSound(ds[k], k)
    BY Zenon, <1>1, <1>2, <1>4, <2>2 DEF HelloSound, Goes, Seen, Greeting
  <2>4. Sound(slot, ds)
    BY Zenon, <1>1, <1>4, <2>2, <2>3, GoesSound DEF Seen
  <2> QED  BY Zenon, <1>3, <1>7, <2>4, SteppedIf
<1>8. CASE /\ k \in slot[n].candidates
           /\ slot' = [slot EXCEPT ![n].primary = k, ![n].candidates = {k}]
           /\ conn' = Wake([Cancel(conn, n, slot[n].candidates \ {k}, FALSE) EXCEPT
                              ![k].end[n].step = "actor"], n)
  <2>1. PICK es : es = Cancel(conn, n, slot[n].candidates \ {k}, FALSE)
    BY Zenon
  <2>2. Same(conn, es, n)
    BY Zenon, <1>1, <2>1, CancelSame
  <2>3. Sound(slot, es)
    BY Zenon, <1>1, <2>2, SameSound
  <2>4. es[k].end[n].step = "ready"
    BY Zenon, <1>4, <2>2 DEF Same
  <2>5. PICK fs : fs = StepTo(es, n, k, "actor")
    BY Zenon
  <2>6. Conns(es) /\ HelloSound(es[k], k)
    BY Zenon, <2>3 DEF Sound
  <2>7. Goes(es, fs, n, k, "actor") /\ fs[k].hello = es[k].hello
    BY SMTT(30), <2>5, <2>6, StepGoes
  <2>8. HelloSound(fs[k], k)
    BY Zenon, <1>2, <2>4, <2>6, <2>7 DEF HelloSound, Goes, Seen, Greeting
  <2>9. Sound(slot, fs)
    BY Zenon, <2>3, <2>4, <2>7, <2>8, GoesSound DEF Seen
  <2>10. PICK t : t = [slot[n] EXCEPT !.primary = k, !.candidates = {k}]
    BY Zenon
  <2>11. /\ SlotShape(t) /\ t.candidates = {k} /\ t.primary = k
         /\ t.current = slot[n].current
    BY Zenon, <1>1, <2>10 DEF SlotShape
  <2>12. SoundAt(slot[n], fs, n) /\ fs[k].end[n].step = "actor"
    BY Zenon, <2>7, <2>9 DEF Sound, Goes
  <2>13. SoundAt(t, fs, n)
    BY Zenon, <1>8, <2>11, <2>12 DEF SoundAt, Known, Seen, Greeting
  <2>14. Sound(Put(slot, n, t), fs) /\ Put(slot, n, t)[n] = t
         /\ \A m \in Nodes \ {n} : Put(slot, n, t)[m] = slot[m]
    BY <2>9, <2>11, <2>13, PutSound
  <2>15. PICK tl : tl = slot'
    BY Zenon
  <2>16. tl = Put(slot, n, t)
    BY Zenon, <1>8, <2>10, <2>15 DEF Put
  <2>17. ds = Wake(fs, n)
    BY Zenon, <1>3, <1>8, <2>1, <2>5 DEF StepTo
  <2>18. Sound(tl, ds)
    <3>1. Sound(tl, fs)
      BY Zenon, <2>14, <2>16
    <3>2. Same(fs, ds, n)
      BY Zenon, <2>17, <3>1, WakeSame DEF Sound
    <3> QED  BY Zenon, <3>1, <3>2, SameSound
  <2> QED  BY Zenon, <1>3, <2>15, <2>18, SteppedIf
<1> QED  BY Zenon, <1>5, <1>6, <1>7, <1>8 DEF Promote

\* register_candidate: k joins, with a task that has seen nobody.
LEMMA RegisterSound ==
  ASSUME BrokerInv, NEW n \in Nodes, NEW k \in Keys, NEW local,
         slot' = [slot EXCEPT ![n].local = local, ![n].candidates = @ \cup {k}],
         NEW fs, conn' = Wake(fs, n),
         Conns(fs), \A j \in Keys \ {k} : fs[j] = conn[j], HelloSound(fs[k], k),
         fs[k].end[n].step = "registered", fs[k].end[n].saw = None,
         \A m \in Nodes \ {n} : k \in slot[m].candidates =>
           fs[k].end[m].step = conn[k].end[m].step /\ fs[k].end[m].saw = conn[k].end[m].saw,
         k \notin slot[n].candidates
  PROVE  Stepped
<1>1. PICK s : s = slot[n]
  BY Zenon
<1>2. /\ Sound(slot, conn) /\ SlotShape(s) /\ SoundAt(s, conn, n)
      /\ s.candidates \subseteq Keys
  BY Zenon, <1>1, SoundParts DEF BrokerInv, SlotShape
<1>3. PICK t : t = [s EXCEPT !.local = local, !.candidates = s.candidates \cup {k}]
  BY Zenon
<1>4. /\ SlotShape(t) /\ t.candidates = s.candidates \cup {k} /\ t.primary = s.primary
      /\ t.current = s.current
  BY Zenon, <1>2, <1>3 DEF SlotShape
<1>5. \A j \in s.candidates : fs[j] = conn[j]
  BY Zenon, <1>1, <1>2
<1>6. SoundAt(t, fs, n)
  BY SMTT(30), <1>2, <1>4, <1>5 DEF SoundAt, Known, Greeting
<1>7. /\ Sound(Put(slot, n, t), fs) /\ Put(slot, n, t)[n] = t
      /\ \A m \in Nodes \ {n} : Put(slot, n, t)[m] = slot[m]
  BY <1>2, <1>4, <1>6, TaskSound
<1>8. PICK tl : tl = slot'
  BY Zenon
<1>9. PICK ds : ds = conn'
  BY Zenon
<1>10. tl = Put(slot, n, t)
  BY Zenon, <1>1, <1>3, <1>8 DEF Put
<1>11. Sound(tl, fs)
  BY Zenon, <1>7, <1>10
<1>12. Same(fs, Wake(fs, n), n)
  BY Zenon, WakeSame
<1>13. Sound(tl, Wake(fs, n))
  BY Zenon, <1>11, <1>12, SameSound
<1>14. Sound(tl, ds)
  BY Zenon, <1>9, <1>13
<1> QED  BY Zenon, <1>8, <1>9, <1>14, SteppedIf

\* A connection that is accepted joins at the accepting end.
LEMMA InboundSteps ==
  ASSUME BrokerInv, NEW n \in Nodes, NEW k \in Keys, RegisterInbound(n, k)
  PROVE  Stepped
<1>1. /\ Sound(slot, conn) /\ Conns(conn) /\ SoundAt(slot[n], conn, n)
      /\ HelloSound(conn[k], k) /\ conn[k].end[n].step = "arrived"
  BY Zenon, SoundParts DEF BrokerInv, Sound, RegisterInbound, Step, End
<1>2. k \notin slot[n].candidates
  BY Zenon, <1>1 DEF SoundAt, Greeting, Seen
<1>3. n = Other(k[1]) /\ k[1] \in Nodes /\ k[1] # n
  <2>1. n = k[1] \/ (n = Other(k[1]) /\ k[1] \in Nodes /\ k[1] # n)
    BY DEF Keys, Nodes, Other
  <2> QED  BY Zenon, <1>1, <2>1 DEF HelloSound
<1>4. CASE quiescing[n]
  <2>1. PICK ds : ds = conn'
    BY Zenon
  <2>2. Sound(slot, ds)
    BY Zenon, <1>1, <1>2, <1>4, <2>1, OverSound DEF RegisterInbound
  <2> QED  BY Zenon, <1>4, <2>1, <2>2, SteppedIf DEF RegisterInbound
<1>5. CASE ~quiescing[n]
  <2>1. PICK fs : fs = StepTo(conn, n, k, "registered")
    BY Zenon
  <2>2. Goes(conn, fs, n, k, "registered") /\ fs[k].hello = conn[k].hello
    BY <1>1, <2>1, StepGoes
  <2>3. HelloSound(fs[k], k) /\ fs[k].end[n].saw = None
    BY Zenon, <1>1, <1>3, <2>2 DEF HelloSound, Goes, Greeting, Seen
  <2>4. conn' = Wake(fs, n)
    BY Zenon, <1>5, <2>1 DEF RegisterInbound, StepTo
  <2>5. PICK local : slot' = [slot EXCEPT ![n].local = local, ![n].candidates = @ \cup {k}]
    BY Zenon, <1>5 DEF RegisterInbound, RegisterCandidate
  <2>6. /\ Conns(fs) /\ \A j \in Keys \ {k} : fs[j] = conn[j]
        /\ fs[k].end[n].step = "registered"
        /\ \A m \in Nodes \ {n} : fs[k].end[m].step = conn[k].end[m].step
                                  /\ fs[k].end[m].saw = conn[k].end[m].saw
    BY Zenon, <2>2 DEF Goes
  <2> QED  BY Zenon, <1>2, <2>3, <2>4, <2>5, <2>6, RegisterSound
<1> QED  BY Zenon, <1>4, <1>5

\* A connection that is dialed has a fresh name, and joins at the dialing end.
LEMMA DialSteps ==
  ASSUME BrokerInv, NEW n \in Nodes, DialConnects(n)
  PROVE  Stepped
<1>1. CASE slot' = slot /\ conn' = conn
  BY Zenon, <1>1, QuietSteps
<1>2. CASE ~(slot' = slot /\ conn' = conn)
  <2>1. PICK a \in Attempts :
          /\ conn[<<n, a>>] = NoConn
          /\ RegisterCandidate(n, <<n, a>>)
          /\ conn' = Wake([conn EXCEPT ![<<n, a>>].end[n] = NewEnd("registered"),
                                       ![<<n, a>>].end[Other(n)] = NewEnd("accepting")], n)
    BY Zenon, <1>2 DEF DialConnects
  <2>2. PICK k : k = <<n, a>>
    BY Zenon
  <2>3. k \in Keys /\ k[1] = n /\ Other(n) \in Nodes /\ Other(n) # n /\ conn[k] = NoConn
    BY <2>1, <2>2 DEF Keys, Nodes, Other
  <2>4. PICK c : c = SetEnd(NoConn, n, NewEnd("registered"))
    BY Zenon
  <2>5. PICK d : d = SetEnd(c, Other(n), NewEnd("accepting"))
    BY Zenon
  <2>6. /\ EndShape(NewEnd("registered")) /\ NewEnd("registered").step = "registered"
        /\ EndShape(NewEnd("accepting")) /\ NewEnd("accepting").step = "accepting"
        /\ NewEnd("registered").saw = None /\ NewEnd("accepting").saw = None
    BY Zenon DEF EndShape, NewEnd
  <2>7. ConnShape(NoConn) /\ NoConn.hello = None /\ \A m \in Nodes : NoConn.end[m].step = "none"
    BY Zenon DEF NoConn, ConnShape, EndShape, NewEnd
  <2>8. /\ ConnShape(c) /\ c.hello = None /\ c.end[n] = NewEnd("registered")
    BY <2>4, <2>6, <2>7, EndSet
  <2>9. /\ ConnShape(d) /\ d.hello = None /\ d.end[n] = NewEnd("registered")
        /\ d.end[Other(n)] = NewEnd("accepting")
    BY <2>3, <2>5, <2>6, <2>8, EndSet
  <2>10. PICK fs : fs = PutConn(conn, k, d)
    BY Zenon
  <2>11. Conns(conn) /\ \A m \in Nodes : SoundAt(slot[m], conn, m)
    BY Zenon DEF BrokerInv, Sound
  <2>12. Conns(fs) /\ fs[k] = d /\ \A j \in Keys \ {k} : fs[j] = conn[j]
    BY <2>3, <2>9, <2>10, <2>11, ConnPut
  <2>13. conn' = Wake(fs, n)
    <3>1. PICK as : as = [conn EXCEPT ![k].end[n] = NewEnd("registered")]
      BY Zenon
    <3>2. as = [conn EXCEPT ![k] = c] /\ as[k] = c
      BY Zenon, <2>3, <2>4, <2>11, <3>1 DEF SetEnd, Conns
    <3>3. [as EXCEPT ![k].end[Other(n)] = NewEnd("accepting")] = fs
      BY Zenon, <2>3, <2>5, <2>10, <2>11, <3>2 DEF SetEnd, PutConn, Conns
    <3> QED  BY Zenon, <2>1, <2>2, <3>1, <3>3
  <2>14. HelloSound(fs[k], k) /\ fs[k].end[n].step = "registered" /\ fs[k].end[n].saw = None
    BY Zenon, <2>3, <2>6, <2>9, <2>12 DEF HelloSound, Greeting, Seen
  <2>15. \A m \in Nodes : k \notin slot[m].candidates
    BY Zenon, <2>3, <2>7, <2>11 DEF SoundAt, Greeting, Seen
  <2>16. PICK local : slot' = [slot EXCEPT ![n].local = local, ![n].candidates = @ \cup {k}]
    BY Zenon, <2>1, <2>2 DEF RegisterCandidate
  <2> QED  BY Zenon, <2>3, <2>12, <2>13, <2>14, <2>15, <2>16, RegisterSound
<1> QED  BY Zenon, <1>1, <1>2

\* An end that has seen inc.
SeenEnd(e, inc) == [e EXCEPT !.saw = inc, !.step = "observed"]

\* observe_incarnation: the candidates of the owner before are gone, so the
\* ones that are left have seen nobody or the new owner.  A greeting that names
\* no owner changes none.
LEMMA ObserveSteps ==
  ASSUME BrokerInv, NEW n \in Nodes, NEW k \in Keys, NEW inc, inc # None,
         conn[k].end[n].step \in Greeting,
         ObserveIncarnation(n, k, inc)
  PROVE  Stepped
<1>1. PICK s : s = slot[n]
  BY Zenon
<1>2. /\ Sound(slot, conn) /\ Conns(conn) /\ ConnShape(conn[k]) /\ HelloSound(conn[k], k)
      /\ SlotShape(s) /\ SoundAt(s, conn, n) /\ s.candidates \subseteq Keys
  BY Zenon, <1>1, SoundParts DEF BrokerInv, SlotShape, Sound, Conns
<1>3. /\ k[1] \in Nodes /\ Other(k[1]) \in Nodes /\ Other(k[1]) # k[1]
      /\ n = k[1] \/ n = Other(k[1])
  BY DEF Keys, Nodes, Other
<1>4. PICK e : e = SeenEnd(conn[k].end[n], inc)
  BY Zenon
<1>5. EndShape(e) /\ e.step = "observed" /\ e.saw = inc
  <2>1. EndShape(conn[k].end[n])
    BY Zenon, <1>2 DEF ConnShape
  <2> QED  BY Zenon, <1>4, <2>1 DEF EndShape, SeenEnd
<1>6. PICK c : c = SetEnd(conn[k], n, e)
  BY Zenon
<1>7. /\ ConnShape(c) /\ c.hello = conn[k].hello
      /\ \A m \in Nodes : c.end[m] = IF m = n THEN e ELSE conn[k].end[m]
  BY SMTT(30), <1>2, <1>5, <1>6, EndSet
<1>8. PICK fs : fs = PutConn(conn, k, c)
  BY Zenon
<1>9. Conns(fs) /\ fs[k] = c /\ \A j \in Keys \ {k} : fs[j] = conn[j]
  BY SMTT(30), <1>2, <1>7, <1>8, ConnPut
<1>10. HelloSound(fs[k], k)
  BY Zenon, <1>2, <1>3, <1>5, <1>7, <1>9 DEF HelloSound, Greeting, Seen
<1>11. fs = [conn EXCEPT ![k].end[n].saw = inc, ![k].end[n].step = "observed"]
  <2>1. [conn EXCEPT ![k].end[n].saw = inc, ![k].end[n].step = "observed"]
          = [conn EXCEPT ![k] = [conn[k] EXCEPT !.end[n] =
              [[conn[k].end[n] EXCEPT !.saw = inc] EXCEPT !.step = "observed"]]]
    BY Zenon, <1>2 DEF Conns, ConnShape
  <2> QED  BY Zenon, <1>4, <1>6, <1>8, <2>1 DEF PutConn, SetEnd, SeenEnd
<1>12. \A m \in Nodes \ {n} : fs[k].end[m] = conn[k].end[m]
  BY Zenon, <1>7, <1>9
<1>13. fs[k].end[n].step = "observed" /\ fs[k].end[n].saw = inc
  BY Zenon, <1>5, <1>7, <1>9
<1>14. PICK tl : tl = slot'
  BY Zenon
<1>15. PICK ds : ds = conn'
  BY Zenon
<1>16. CASE inc \in {Bare, s.current}
  <2>1. SoundAt(s, fs, n)
    <3>1. \A j \in s.candidates : fs[j] = conn[j] \/ j = k
      BY Zenon, <1>2, <1>9
    <3>2. s.primary # k \/ s.primary = None
      BY Zenon, <1>2 DEF SoundAt, Greeting, Seen
    <3>3. Known(s, fs[k].end[n].saw)
      BY Zenon, <1>13, <1>16 DEF Known
    <3> QED  BY <1>2, <1>13, <3>1, <3>2, <3>3 DEF SoundAt, Seen
  <2>2. /\ Sound(Put(slot, n, s), fs) /\ Put(slot, n, s)[n] = s
        /\ \A m \in Nodes \ {n} : Put(slot, n, s)[m] = slot[m]
    BY SMTT(30), <1>2, <1>9, <1>10, <1>12, <2>1, TaskSound
  <2>3. Put(slot, n, s) = slot
    BY Zenon, <1>1, <1>2 DEF Put, Sound, Slots
  <2>4. ds = fs /\ slot' = slot
    BY Zenon, <1>1, <1>11, <1>15, <1>16 DEF ObserveIncarnation
  <2>5. Sound(slot, ds)
    BY Zenon, <2>2, <2>3, <2>4
  <2> QED  BY ZenonT(30), <1>15, <2>4, <2>5, SteppedIf
<1>17. CASE inc \notin {Bare, s.current}
  <2> DEFINE old == {l \in s.candidates \ {k} : conn[l].end[n].saw \notin {None, inc}}
  <2>1. PICK t : t = [Without(Observe(s, inc), old) EXCEPT !.accepted = None]
    BY Zenon
  <2>2. /\ SlotShape(t) /\ t.candidates = s.candidates \ old
        /\ t.primary = IF s.primary \in old THEN None ELSE s.primary
        /\ t.current = inc
    <3>1. PICK o : o = Observe(s, inc)
      BY Zenon
    <3>2. /\ SlotShape(o) /\ o.candidates = s.candidates /\ o.primary = s.primary
          /\ o.current = inc
      BY Zenon, <1>2, <3>1 DEF Observe, SlotShape
    <3>3. PICK w : w = Without(o, old)
      BY Zenon
    <3>4. /\ SlotShape(w) /\ w.candidates = s.candidates \ old
          /\ w.primary = IF s.primary \in old THEN None ELSE s.primary
          /\ w.current = inc
      <4> HIDE DEF old
      <4> QED  BY Zenon, <3>2, <3>3 DEF Without, SlotShape
    <3>5. t = [w EXCEPT !.accepted = None]
      BY Zenon, <2>1, <3>1, <3>3
    <3> HIDE DEF old
    <3> QED  BY Zenon, <3>2, <3>4, <3>5 DEF SlotShape
  <2>3. ASSUME NEW j \in t.candidates, j # k
        PROVE  fs[j].end[n].step \in Greeting /\ fs[j].end[n].saw = None
    <3>1. j \in s.candidates /\ fs[j] = conn[j] /\ conn[j].end[n].saw \in {None, inc}
      BY Zenon, <1>2, <1>9, <2>2, <2>3
    <3> QED  BY Zenon, <1>2, <1>17, <3>1, BrokerAssumption DEF SoundAt, Known
  <2>4. t.primary = None
    <3>1. CASE s.primary # None /\ s.primary \notin old
      <4>1. s.primary \in s.candidates /\ conn[s.primary].end[n].step \in Seen
        BY Zenon, <1>2, <3>1 DEF SoundAt
      <4>2. s.primary # k
        BY Zenon, <4>1 DEF Seen, Greeting
      <4>3. Known(s, conn[s.primary].end[n].saw)
        BY Zenon, <1>2, <4>1 DEF SoundAt, Seen, Greeting
      <4>4. conn[s.primary].end[n].saw \notin {None, inc}
        BY Zenon, <1>17, <4>3, BrokerAssumption DEF Known
      <4> QED  BY Zenon, <3>1, <4>1, <4>2, <4>4
    <3> HIDE DEF old
    <3> QED  BY Zenon, <2>2, <3>1
  <2>5. Known(t, fs[k].end[n].saw)
    BY Zenon, <1>13, <2>2 DEF Known
  <2>6. SoundAt(t, fs, n)
    BY ZenonT(30), <1>13, <2>3, <2>4, <2>5 DEF SoundAt, Seen
  <2>7. /\ Sound(Put(slot, n, t), fs) /\ Put(slot, n, t)[n] = t
        /\ \A m \in Nodes \ {n} : Put(slot, n, t)[m] = slot[m]
    BY SMTT(30), <1>2, <1>9, <1>10, <1>12, <2>2, <2>6, TaskSound
  <2>8. tl = Put(slot, n, t) /\ ds = Wake(Cancel(fs, n, old, FALSE), n)
    BY Zenon, <1>1, <1>11, <1>14, <1>15, <1>17, <2>1 DEF ObserveIncarnation, End, Put
  <2>9. Sound(tl, fs)
    BY Zenon, <2>7, <2>8
  <2>10. PICK es : es = Cancel(fs, n, old, FALSE)
    BY Zenon
  <2>11. Sound(tl, es)
    <3> HIDE DEF old
    <3>1. Same(fs, es, n)
      BY Zenon, <1>9, <2>10, CancelSame
    <3> QED  BY Zenon, <2>9, <3>1, SameSound
  <2>12. Sound(tl, ds)
    <3>1. ds = Wake(es, n)
      BY Zenon, <2>8, <2>10
    <3>2. Same(es, ds, n)
      BY Zenon, <2>11, <3>1, WakeSame DEF Sound
    <3> QED  BY Zenon, <2>11, <3>2, SameSound
  <2> QED  BY Zenon, <1>14, <1>15, <2>12, SteppedIf
<1> QED  BY Zenon, <1>16, <1>17

\* The Welcome and the Hello that tell of the owner at the other end.
LEMMA ObservingSteps ==
  ASSUME BrokerInv, NEW n \in Nodes, NEW k \in Keys, ReadWelcome(n, k) \/ ObserveHello(n, k)
  PROVE  Stepped
<1>1. HelloSound(conn[k], k)
  BY Zenon DEF BrokerInv, Sound
<1>2. CASE ReadWelcome(n, k)
  <2>1. CASE ObserveRefuses(slot[n], conn[k].welcome)
    BY Zenon, <1>2, <2>1, RemoveSteps DEF ReadWelcome
  <2>2. CASE ~ObserveRefuses(slot[n], conn[k].welcome)
    <3>1. PICK inc : inc = conn[k].welcome
      BY Zenon
    <3>2. /\ inc # None /\ conn[k].end[n].step \in Greeting
          /\ ObserveIncarnation(n, k, inc)
      BY Zenon, <1>2, <2>2, <3>1 DEF ReadWelcome, Step, End, Greeting
    <3> QED  BY Zenon, <3>2, ObserveSteps
  <2> QED  BY Zenon, <2>1, <2>2
<1>3. CASE ObserveHello(n, k)
  <2>1. CASE ~admits[n] \/ ObserveRefuses(slot[n], conn[k].hello)
    BY Zenon, <1>3, <2>1, RemoveSteps DEF ObserveHello
  <2>2. CASE admits[n] /\ ~ObserveRefuses(slot[n], conn[k].hello)
    <3>1. PICK inc : inc = conn[k].hello
      BY Zenon
    <3>2. n = Other(k[1])
      BY <1>3 DEF ObserveHello, Outbound, Keys, Nodes, Other
    <3>3. inc # None /\ conn[k].end[n].step \in Greeting
      BY Zenon, <1>1, <1>3, <3>1, <3>2 DEF HelloSound, ObserveHello, Step, End, Greeting
    <3>4. ObserveIncarnation(n, k, inc)
      BY Zenon, <1>3, <2>2, <3>1 DEF ObserveHello
    <3> QED  BY Zenon, <3>3, <3>4, ObserveSteps
  <2> QED  BY Zenon, <2>1, <2>2
<1> QED  BY Zenon, <1>2, <1>3

-----------------------------------------------------------------------------
(* A process that dies, and the start.                                     *)

\* A slot that nobody has used.
LEMMA NewSlotSound ==
  ASSUME NEW bare, NEW t, t = FreshSlot(bare)
  PROVE  SlotShape(t) /\ t.candidates = {} /\ \A cs, n : SoundAt(t, cs, n)
<1>1. SlotShape(t) /\ t.candidates = {} /\ t.primary = None
  BY Zenon DEF FreshSlot, NewSlot, SlotShape
<1> QED  BY Zenon, <1>1 DEF SoundAt

\* Every connection of a process that dies loses this end.
LEMMA RestartSteps ==
  ASSUME BrokerInv, NEW n \in Nodes, Restart(n)
  PROVE  Stepped
<1>1. Sound(slot, conn) /\ Conns(conn) /\ SoundAt(slot[n], conn, n)
  BY Zenon, SoundParts DEF BrokerInv
<1>2. PICK bare, t : t = FreshSlot(bare) /\ slot' = [slot EXCEPT ![n] = t]
  BY Zenon DEF Restart
<1>3. SlotShape(t) /\ SoundAt(t, conn, n) /\ t.candidates = {}
  BY Zenon, <1>2, NewSlotSound
<1>4. /\ Sound(Put(slot, n, t), conn) /\ Put(slot, n, t)[n] = t
      /\ \A m \in Nodes \ {n} : Put(slot, n, t)[m] = slot[m]
  BY <1>1, <1>3, PutSound
<1>5. PICK tl : tl = Put(slot, n, t)
  BY Zenon
<1>6. Sound(tl, conn) /\ tl[n] = t /\ \A m \in Nodes \ {n} : tl[m] = slot[m]
  BY Zenon, <1>4, <1>5
<1>7. slot' = tl
  BY Zenon, <1>2, <1>5 DEF Put
<1>8. PICK ds : ds = conn'
  BY Zenon
<1>9. ds = [k \in Keys |-> IF Step(n, k) = "none" THEN conn[k] ELSE Over(conn, n, k)[k]]
  BY Zenon, <1>8 DEF Restart
<1>10. ASSUME NEW k \in Keys  PROVE  \E cs : Sound(tl, cs) /\ ds[k] = cs[k]
  <2>1. CASE Step(n, k) = "none"
    BY Zenon, <1>6, <1>9, <2>1
  <2>2. CASE Step(n, k) # "none"
    <3>1. Sound(tl, Over(conn, n, k))
      BY Zenon, <1>3, <1>6, OverSound
    <3> QED  BY Zenon, <1>9, <2>2, <3>1
  <2> QED  BY Zenon, <2>1, <2>2
<1>11. \A k \in Keys : ConnShape(ds[k]) /\ HelloSound(ds[k], k)
  BY Zenon, <1>10 DEF Sound, Conns
<1>12. Conns(ds)
  BY Zenon, <1>9, <1>11 DEF Conns
<1>13. ASSUME NEW m \in Nodes  PROVE  SoundAt(tl[m], ds, m)
  <2>1. PICK s : s = tl[m]
    BY Zenon
  <2>2. SoundAt(s, conn, m) /\ s.candidates \subseteq Keys
    BY Zenon, <1>6, <2>1 DEF Sound, Slots, SlotShape
  <2>3. ASSUME NEW k \in s.candidates
        PROVE  /\ \/ ds[k].end[m].step \in Greeting /\ ds[k].end[m].saw = None
                  \/ /\ ds[k].end[m].step \in Seen
                     /\ Known(s, ds[k].end[m].saw)
               /\ s.primary = k => ds[k].end[m].step \in Seen
    <3>1. PICK cs : Sound(tl, cs) /\ ds[k] = cs[k]
      BY Zenon, <1>10, <2>2
    <3>2. SoundAt(s, cs, m)
      BY Zenon, <2>1, <3>1 DEF Sound
    <3>3. k # None
      BY Zenon, <2>2, BrokerAssumption
    <3> QED  BY <3>1, <3>2, <3>3 DEF SoundAt
  <2>4. SoundAt(s, ds, m)
    BY Zenon, <2>2, <2>3 DEF SoundAt
  <2> QED  BY Zenon, <2>1, <2>4
<1>14. Sound(tl, ds)
  BY Zenon, <1>6, <1>11, <1>12, <1>13 DEF Sound
<1> QED  BY Zenon, <1>7, <1>8, <1>14, SteppedIf

\* Nobody is connected at the start.
LEMMA BrokerInitial == Init => BrokerInv
<1> SUFFICES ASSUME Init  PROVE  Sound(slot, conn)
  BY Zenon DEF BrokerInv
<1>1. Slots(slot) /\ \A n \in Nodes : SoundAt(slot[n], conn, n)
  <2>1. PICK old \in SUBSET Old : slot = [n \in Nodes |-> FreshSlot(n \in old)]
    BY Zenon DEF Init
  <2>2. ASSUME NEW n \in Nodes  PROVE  SlotShape(slot[n]) /\ SoundAt(slot[n], conn, n)
    <3>1. PICK bare : bare = (n \in old)
      BY Zenon
    <3>2. slot[n] = FreshSlot(bare)
      BY Zenon, <2>1, <3>1
    <3> QED  BY Zenon, <3>2, NewSlotSound
  <2> QED  BY Zenon, <2>1, <2>2 DEF Slots
<1>2. /\ ConnShape(NoConn) /\ NoConn.hello = None
      /\ \A n \in Nodes : NoConn.end[n].step = "none" /\ NoConn.end[n].saw = None
  BY Zenon DEF NoConn, ConnShape, EndShape, NewEnd
<1>3. \A k \in Keys : HelloSound(NoConn, k)
  BY Zenon, <1>2, KeyParts DEF HelloSound, Greeting, Seen
<1>4. Conns(conn) /\ \A k \in Keys : conn[k] = NoConn
  BY Zenon, <1>2 DEF Init, Conns
<1> QED  BY Zenon, <1>1, <1>3, <1>4 DEF Sound

\* Every step keeps the invariant.
LEMMA BrokerSteps == BrokerInv /\ [Next]_vars => Stepped
<1> SUFFICES ASSUME BrokerInv, [Next]_vars  PROVE  Stepped
  BY Zenon
<1>1. CASE UNCHANGED vars
  BY Zenon, <1>1 DEF vars, Stepped, BrokerInv
<1>2. CASE Next
  <2>1. PICK n \in Nodes :
          \/ WorkerStep(n)
          \/ \E k \in Keys : TaskStep(n, k) \/ LinkLost(n, k)
          \/ \E u \in Users :
               \/ AcquireDemand(n, u) \/ UserStep(n, u) \/ UserDeadline(n, u)
               \/ ReleaseDemand(n, u) \/ RetireFailedCandidate(n, u)
          \/ DetachEndpoint(n) \/ AttachEndpoint(n) \/ Quiesce(n) \/ Restart(n)
          \/ Revoke(n)
          \/ \E i \in Incarnations : ExpireRetired(n, <<Other(n), i>>)
    BY Zenon, <1>2 DEF Next
  <2>2. CASE WorkerStep(n)
    BY Zenon, <2>2, WorkerSteps, DialSteps DEF WorkerStep
  <2>3. ASSUME NEW k \in Keys, TaskStep(n, k) \/ LinkLost(n, k)  PROVE  Stepped
    BY Zenon, <2>3, GreetingSteps, ObservingSteps, EndingSteps, InboundSteps, PromoteSteps, LinkSteps
       DEF TaskStep
  <2>4. ASSUME NEW u \in Users,
               \/ AcquireDemand(n, u) \/ UserStep(n, u) \/ UserDeadline(n, u)
               \/ ReleaseDemand(n, u) \/ RetireFailedCandidate(n, u)
        PROVE  Stepped
    BY Zenon, <2>4, UserSteps
  <2>5. CASE \/ DetachEndpoint(n) \/ AttachEndpoint(n) \/ Quiesce(n) \/ Revoke(n)
             \/ \E i \in Incarnations : ExpireRetired(n, <<Other(n), i>>)
    BY Zenon, <2>5, OutsideSteps
  <2>6. CASE Restart(n)
    BY Zenon, <2>6, RestartSteps
  <2> QED  BY Zenon, <2>1, <2>2, <2>3, <2>4, <2>5, <2>6
<1> QED  BY Zenon, <1>1, <1>2

\* The invariant holds of every run of the two brokers.
LEMMA BrokerInvariant == Spec => []BrokerInv
<1>1. BrokerInv /\ [Next]_vars => BrokerInv'
  BY Zenon, BrokerSteps DEF Stepped
<1> QED  BY BrokerInitial, <1>1, PTL DEF Spec

\* A candidate in the registry always has a task that will promote or remove
\* it, and the promoted connection belongs to the owner seen last at the other
\* end, however handshakes, losses, restarts and revocations interleave
\* (register_candidate, observe_incarnation, promote_candidate).
THEOREM CandidatesSafe == Spec => []CandidatesSound
BY BrokerInvariant, SoundSuffices, PTL

=============================================================================
