------------------------ MODULE HalStateMachineProofs ------------------------
(***************************************************************************)
(* Proofs about HalStateMachine: the types, and that no state hides what   *)
(* the channels and the post-processor do, whatever the framework calls    *)
(* and however the layers below fail, as far as each theorem says.         *)
(*                                                                         *)
(* The machine handles one command at a time, so what has to be shown of   *)
(* a step is a fact about one handler (Kept): lemmas about the operations  *)
(* on channels and parameters first, then one per state and command, then  *)
(* the queues, then the theorems.                                          *)
(***************************************************************************)
EXTENDS HalStateMachine, SequenceTheorems, TLAPS

ChanStates == {"none", "stopped", "running"}
Hal == [chan : [Channels -> ChanStates], zsl : BOOLEAN, zslNew : BOOLEAN,
        hint : BOOLEAN, hintNew : BOOLEAN, hintKey : BOOLEAN,
        window : BOOLEAN, pp : BOOLEAN]
Outcome == [h : Hal, ok : BOOLEAN]

\* Two values of hal that differ in the channels only.
SameRest(h, k) ==
  /\ k.zsl = h.zsl /\ k.zslNew = h.zslNew /\ k.hint = h.hint /\ k.hintNew = h.hintNew
  /\ k.hintKey = h.hintKey /\ k.window = h.window /\ k.pp = h.pp

\* The fields of hal have their types.
LEMMA HalFields ==
  ASSUME NEW h \in Hal
  PROVE  /\ h.chan \in [Channels -> ChanStates]
         /\ \A c \in Channels : h.chan[c] \in ChanStates
         /\ h.zsl \in BOOLEAN /\ h.zslNew \in BOOLEAN /\ h.hint \in BOOLEAN
         /\ h.hintNew \in BOOLEAN /\ h.hintKey \in BOOLEAN /\ h.window \in BOOLEAN
         /\ h.pp \in BOOLEAN
BY DEF Hal

\* Channels are put in a state; the rest is left alone.
LEMMA WithFacts ==
  ASSUME NEW h \in Hal, NEW C, NEW v \in ChanStates
  PROVE  /\ With(h, C, v) \in Hal /\ SameRest(h, With(h, C, v))
         /\ \A c \in Channels : With(h, C, v).chan[c] = IF c \in C THEN v ELSE h.chan[c]
<1> DEFINE f == [c \in Channels |-> IF c \in C THEN v ELSE h.chan[c]]
<1>1. f \in [Channels -> ChanStates]
  BY HalFields
<1>2. With(h, C, v) = [h EXCEPT !.chan = f]
  BY DEF With
<1> HIDE DEF f
<1>3. [h EXCEPT !.chan = f] \in Hal /\ SameRest(h, [h EXCEPT !.chan = f])
      /\ [h EXCEPT !.chan = f].chan = f
  BY <1>1 DEF Hal, SameRest
<1>4. \A c \in Channels : f[c] = IF c \in C THEN v ELSE h.chan[c]
  BY DEF f
<1> QED BY <1>2, <1>3, <1>4

\* An outcome has the parts it was made of.
LEMMA OutFacts ==
  ASSUME NEW h, NEW ok
  PROVE  Out(h, ok).h = h /\ Out(h, ok).ok = ok
BY DEF Out

\* and is an outcome.
LEMMA OutTyped ==
  ASSUME NEW h \in Hal, NEW ok \in BOOLEAN
  PROVE  Out(h, ok) \in Outcome
BY DEF Out, Outcome

-----------------------------------------------------------------------------
(* What the operators on channels return.                                  *)

\* No channel was made or started: each is as it was, or gone.
OnlyGone(h, k) == \A c \in Channels : k.chan[c] = h.chan[c] \/ k.chan[c] = "none"

\* Deleting channels.
LEMMA DelFacts ==
  ASSUME NEW h \in Hal, NEW C
  PROVE  /\ delChannels(h, C) \in Hal /\ SameRest(h, delChannels(h, C))
         /\ OnlyGone(h, delChannels(h, C))
         /\ \A c \in Channels : delChannels(h, C).chan[c] = IF c \in C THEN "none" ELSE h.chan[c]
<1>1. "none" \in ChanStates
  BY DEF ChanStates
<1> QED BY <1>1, WithFacts DEF delChannels, OnlyGone

\* Adding channels: all are there, stopped; or one could not be added.
LEMMA AddFacts ==
  ASSUME NEW h \in Hal, NEW seq, NEW o \in addChannels(h, seq)
  PROVE  /\ o \in Outcome /\ SameRest(h, o.h)
         /\ o.ok => \A c \in Channels :
              o.h.chan[c] = IF c \in {seq[i] : i \in 1..Len(seq)} THEN "stopped" ELSE h.chan[c]
         /\ ~o.ok => "add" \in Failures /\ OnlyGone(h, o.h)
<1>1. CASE o = Out(With(h, {seq[i] : i \in 1..Len(seq)}, "stopped"), TRUE)
  <2> DEFINE C == {seq[i] : i \in 1..Len(seq)}
             w == With(h, C, "stopped")
  <2> HIDE DEF C
  <2>1. /\ w \in Hal /\ SameRest(h, w)
        /\ \A c \in Channels : w.chan[c] = IF c \in C THEN "stopped" ELSE h.chan[c]
    <3>1. "stopped" \in ChanStates
      BY DEF ChanStates
    <3> QED BY <3>1, WithFacts
  <2> HIDE DEF w
  <2>2. o = Out(w, TRUE)
    BY <1>1 DEF w, C
  <2>3. o.h = w /\ o.ok = TRUE /\ o \in Outcome
    BY <2>1, <2>2 DEF Out, Outcome
  <2>4. \A c \in Channels : o.h.chan[c] = IF c \in C THEN "stopped" ELSE h.chan[c]
    BY <2>1, <2>3
  <2> QED BY <2>1, <2>3, <2>4 DEF C
<1>2. CASE ~(o = Out(With(h, {seq[i] : i \in 1..Len(seq)}, "stopped"), TRUE))
  <2>1. "add" \in Failures
        /\ \E k \in 1..Len(seq) : o = Out(delChannels(h, {seq[i] : i \in 1..k}), FALSE)
    BY <1>2 DEF addChannels
  <2>2. PICK C : o = Out(delChannels(h, C), FALSE)
    BY <2>1
  <2> DEFINE w == delChannels(h, C)
  <2>3. w \in Hal /\ SameRest(h, w) /\ OnlyGone(h, w)
    BY DelFacts
  <2> HIDE DEF w
  <2>4. o = Out(w, FALSE)
    BY <2>2 DEF w
  <2>5. o.h = w /\ o.ok = FALSE /\ o \in Outcome
    BY <2>3, <2>4 DEF Out, Outcome
  <2> QED BY <2>1, <2>3, <2>5
<1> QED BY <1>1, <1>2

\* Starting a channel: it runs, or it is not there, or it could not be started.
LEMMA StartFacts ==
  ASSUME NEW h \in Hal, NEW d \in Channels, NEW o \in startChannel(h, d)
  PROVE  /\ o \in Outcome /\ SameRest(h, o.h)
         /\ \A c \in Channels \ {d} : o.h.chan[c] = h.chan[c]
         /\ o.ok => o.h.chan[d] = "running" /\ h.chan[d] # "none"
         /\ ~o.ok => o.h = h /\ (h.chan[d] = "none" \/ "start" \in Failures)
<1>1. ASSUME NEW ok \in BOOLEAN, o = Out(h, ok) PROVE o \in Outcome /\ o.h = h /\ o.ok = ok
  BY <1>1 DEF Out, Outcome
<1>2. SameRest(h, h)
  BY DEF SameRest
<1>3. CASE h.chan[d] = "none"
  <2>1. o = Out(h, FALSE)
    BY <1>3 DEF startChannel
  <2> QED BY <1>1, <1>2, <1>3, <2>1
<1>4. CASE h.chan[d] = "running"
  <2>1. o = Out(h, TRUE)
    BY <1>4 DEF startChannel
  <2> QED BY <1>1, <1>2, <1>4, <2>1
<1>5. CASE h.chan[d] # "none" /\ h.chan[d] # "running"
  <2>1. PICK ok \in May("start") : o = Out(IF ok THEN With(h, {d}, "running") ELSE h, ok)
    BY <1>5 DEF startChannel
  <2>2. ok \in BOOLEAN /\ (~ok => "start" \in Failures)
    BY DEF May
  <2>3. CASE ~ok
    <3>1. o = Out(h, FALSE)
      BY <2>1, <2>2, <2>3
    <3> QED BY <1>1, <1>2, <2>2, <2>3, <3>1
  <2>4. CASE ok
    <3> DEFINE w == With(h, {d}, "running")
    <3>1. /\ w \in Hal /\ SameRest(h, w)
          /\ \A c \in Channels : w.chan[c] = IF c \in {d} THEN "running" ELSE h.chan[c]
      <4>1. "running" \in ChanStates
        BY DEF ChanStates
      <4> QED BY <4>1, WithFacts
    <3> HIDE DEF w
    <3>2. o = Out(w, TRUE)
      BY <2>1, <2>2, <2>4 DEF w
    <3>3. o.h = w /\ o.ok = TRUE /\ o \in Outcome
      BY <3>1, <3>2 DEF Out, Outcome
    <3>4. w.chan[d] = "running" /\ \A c \in Channels \ {d} : w.chan[c] = h.chan[c]
      BY <3>1
    <3> QED BY <1>5, <3>1, <3>3, <3>4
  <2> QED BY <2>2, <2>3, <2>4
<1> QED BY <1>3, <1>4, <1>5

\* Stopping a channel.
LEMMA StopFacts ==
  ASSUME NEW h \in Hal, NEW d \in Channels
  PROVE  /\ stopChannel(h, d) \in Outcome /\ SameRest(h, stopChannel(h, d).h)
         /\ \A c \in Channels \ {d} : stopChannel(h, d).h.chan[c] = h.chan[c]
         /\ stopChannel(h, d).h.chan[d] = IF h.chan[d] = "none" THEN "none" ELSE "stopped"
         /\ stopChannel(h, d).ok = (h.chan[d] # "none")
<1>1. CASE h.chan[d] = "none"
  <2>1. stopChannel(h, d) = Out(h, FALSE)
    BY <1>1 DEF stopChannel
  <2>2. stopChannel(h, d) \in Outcome /\ stopChannel(h, d).h = h /\ stopChannel(h, d).ok = FALSE
    BY <2>1 DEF Out, Outcome
  <2> QED BY <1>1, <2>2 DEF SameRest
<1>2. CASE h.chan[d] # "none"
  <2> DEFINE w == With(h, {d}, "stopped")
  <2>1. /\ w \in Hal /\ SameRest(h, w)
        /\ \A c \in Channels : w.chan[c] = IF c \in {d} THEN "stopped" ELSE h.chan[c]
    <3>1. "stopped" \in ChanStates
      BY DEF ChanStates
    <3> QED BY <3>1, WithFacts
  <2> HIDE DEF w
  <2>2. stopChannel(h, d) = Out(w, TRUE)
    BY <1>2 DEF stopChannel, w
  <2>3. /\ stopChannel(h, d).h = w /\ stopChannel(h, d).ok = TRUE
        /\ stopChannel(h, d) \in Outcome
    BY <2>1, <2>2 DEF Out, Outcome
  <2>4. w.chan[d] = "stopped" /\ \A c \in Channels \ {d} : w.chan[c] = h.chan[c]
    BY <2>1
  <2> QED BY <1>2, <2>1, <2>3, <2>4
<1> QED BY <1>1, <1>2

-----------------------------------------------------------------------------
(* What the operators on the preview return.                               *)

Shows(h) == h.chan["ZSL"] = "running" \/ h.chan["PREVIEW"] = "running"
NoNewVideo(h, k) == k.chan["VIDEO"] = "running" => h.chan["VIDEO"] = "running"

\* The channels of the preview as a set.
PreviewSet(h) == IF h.zsl /\ ~h.hint THEN {"ZSL"}
                 ELSE IF h.hint THEN {"SNAPSHOT", "VIDEO", "PREVIEW"} ELSE {"PREVIEW"}

\* The names of the channels.
LEMMA ChannelNames ==
  {"ZSL", "PREVIEW", "VIDEO", "SNAPSHOT", "CAPTURE"} = Channels
BY DEF Channels

\* The channels of a preview, as a set.
LEMMA PreviewNames ==
  ASSUME NEW h \in Hal
  PROVE  {PreviewChannels(h)[i] : i \in 1..Len(PreviewChannels(h))} = PreviewSet(h)
<1>1. CASE h.zsl /\ ~h.hint
  <2>1. PreviewChannels(h) = <<"ZSL">>
    BY <1>1 DEF PreviewChannels, ZslPreview
  <2>2. {<<"ZSL">>[i] : i \in 1..Len(<<"ZSL">>)} = {"ZSL"}
    OBVIOUS
  <2> QED BY <1>1, <2>1, <2>2 DEF PreviewSet
<1>2. CASE h.hint
  <2> DEFINE s == <<"SNAPSHOT", "VIDEO", "PREVIEW">>
  <2>1. PreviewChannels(h) = s
    BY <1>2 DEF PreviewChannels, ZslPreview
  <2>2. {s[i] : i \in 1..Len(s)} = {"SNAPSHOT", "VIDEO", "PREVIEW"}
    <3>1. Len(s) = 3 /\ s[1] = "SNAPSHOT" /\ s[2] = "VIDEO" /\ s[3] = "PREVIEW"
      OBVIOUS
    <3>2. 1..3 = {1, 2, 3}
      OBVIOUS
    <3> HIDE DEF s
    <3> QED BY <3>1, <3>2
  <2> QED BY <1>2, <2>1, <2>2 DEF PreviewSet
<1>3. CASE ~(h.zsl /\ ~h.hint) /\ ~h.hint
  <2>1. PreviewChannels(h) = <<"PREVIEW">>
    BY <1>3 DEF PreviewChannels, ZslPreview
  <2>2. {<<"PREVIEW">>[i] : i \in 1..Len(<<"PREVIEW">>)} = {"PREVIEW"}
    OBVIOUS
  <2> QED BY <1>3, <2>1, <2>2 DEF PreviewSet
<1> QED BY <1>1, <1>2, <1>3

\* Preparing the preview adds its channels.
LEMMA PrepareFacts ==
  ASSUME NEW h \in Hal, NEW o \in preparePreview(h)
  PROVE  /\ o \in Outcome /\ SameRest(h, o.h)
         /\ o.ok => \A c \in Channels :
              o.h.chan[c] = IF c \in PreviewSet(h) THEN "stopped" ELSE h.chan[c]
         /\ ~o.ok => "add" \in Failures /\ OnlyGone(h, o.h)
<1>1. o \in addChannels(h, PreviewChannels(h))
  BY DEF preparePreview
<1> QED BY <1>1, AddFacts, PreviewNames

\* Taking the preview down deletes them.
LEMMA UnprepareFacts ==
  ASSUME NEW h \in Hal
  PROVE  /\ unpreparePreview(h) \in Hal /\ SameRest(h, unpreparePreview(h))
         /\ OnlyGone(h, unpreparePreview(h))
         /\ \A c \in Channels :
              unpreparePreview(h).chan[c] = IF c \in PreviewSet(h) THEN "none" ELSE h.chan[c]
<1>1. unpreparePreview(h) = delChannels(h, PreviewSet(h))
  BY PreviewNames DEF unpreparePreview
<1> QED BY <1>1, DelFacts

\* Starting it starts one of them, which shows.
LEMMA StartPreviewFacts ==
  ASSUME NEW h \in Hal, NEW o \in startPreview(h)
  PROVE  /\ o \in Outcome /\ SameRest(h, o.h)
         /\ \A c \in {"VIDEO", "SNAPSHOT", "CAPTURE"} : o.h.chan[c] = h.chan[c]
         /\ o.ok => Shows(o.h)
         /\ ~o.ok => /\ o.h = h
                     /\ \/ "start" \in Failures
                        \/ \E c \in PreviewSet(h) : h.chan[c] = "none"
<1>1. CASE h.zsl /\ ~h.hint
  <2>1. o \in startChannel(h, "ZSL") /\ "ZSL" \in Channels
    BY <1>1 DEF startPreview, ZslPreview, Channels
  <2>2. "ZSL" \in PreviewSet(h)
    BY <1>1 DEF PreviewSet
  <2> QED BY <2>1, <2>2, StartFacts, ChannelNames DEF Shows
<1>2. CASE ~(h.zsl /\ ~h.hint)
  <2>1. o \in startChannel(h, "PREVIEW") /\ "PREVIEW" \in Channels
    BY <1>2 DEF startPreview, ZslPreview, Channels
  <2>2. "PREVIEW" \in PreviewSet(h)
    BY <1>2 DEF PreviewSet
  <2> QED BY <2>1, <2>2, StartFacts, ChannelNames DEF Shows
<1> QED BY <1>1, <1>2

\* Preparing and starting the preview: it shows, unless an addition or a start fails.
LEMMA PrepareAndStartFacts ==
  ASSUME NEW h \in Hal, NEW o \in PrepareAndStart(h)
  PROVE  /\ o \in Outcome /\ SameRest(h, o.h) /\ NoNewVideo(h, o.h)
         /\ o.ok => /\ Shows(o.h)
                    /\ \A c \in {"VIDEO", "SNAPSHOT"} :
                         o.h.chan[c] = IF h.hint THEN "stopped" ELSE h.chan[c]
         /\ ~o.ok => "add" \in Failures \/ "start" \in Failures
<1>1. PICK p \in preparePreview(h) :
           \/ p.ok /\ (\E s \in startPreview(p.h) :
                         o = IF s.ok THEN s ELSE Out(unpreparePreview(s.h), FALSE))
           \/ ~p.ok /\ o = p
  BY DEF PrepareAndStart, AndThen, OnFailure
<1>2. /\ p \in Outcome /\ SameRest(h, p.h)
      /\ p.ok => \A c \in Channels :
           p.h.chan[c] = IF c \in PreviewSet(h) THEN "stopped" ELSE h.chan[c]
      /\ ~p.ok => "add" \in Failures /\ OnlyGone(h, p.h)
  BY PrepareFacts
<1>3. p.h \in Hal /\ p.ok \in BOOLEAN
  BY <1>2 DEF Outcome
<1>4. h.hint \in BOOLEAN /\ PreviewSet(p.h) = PreviewSet(h) /\ PreviewSet(h) \subseteq Channels
  BY <1>2, HalFields, ChannelNames DEF PreviewSet, SameRest
<1>5. CASE ~p.ok
  <2>1. o = p
    BY <1>1, <1>5
  <2>2. NoNewVideo(h, p.h)
    BY <1>2, <1>5, ChannelNames DEF NoNewVideo, OnlyGone
  <2> QED BY <1>2, <1>5, <2>1, <2>2
<1>6. CASE p.ok
  <2>1. PICK s \in startPreview(p.h) :
          o = IF s.ok THEN s ELSE Out(unpreparePreview(s.h), FALSE)
    BY <1>1, <1>6
  <2>2. /\ s \in Outcome /\ SameRest(p.h, s.h)
        /\ \A c \in {"VIDEO", "SNAPSHOT", "CAPTURE"} : s.h.chan[c] = p.h.chan[c]
        /\ s.ok => Shows(s.h)
        /\ ~s.ok => /\ s.h = p.h
                    /\ \/ "start" \in Failures
                       \/ \E c \in PreviewSet(p.h) : p.h.chan[c] = "none"
    BY <1>3, StartPreviewFacts
  <2>3. s.h \in Hal /\ s.ok \in BOOLEAN
    BY <2>2 DEF Outcome
  <2>4. SameRest(h, s.h)
    BY <1>2, <2>2 DEF SameRest
  <2>5. /\ \A c \in {"VIDEO", "SNAPSHOT"} :
             p.h.chan[c] = IF h.hint THEN "stopped" ELSE h.chan[c]
        /\ NoNewVideo(h, p.h)
    BY <1>2, <1>4, <1>6, ChannelNames DEF PreviewSet, NoNewVideo
  <2>6. CASE s.ok
    <3>1. o = s
      BY <2>1, <2>6
    <3>2. NoNewVideo(h, s.h)
      BY <2>2, <2>5 DEF NoNewVideo
    <3> QED BY <2>2, <2>4, <2>5, <2>6, <3>1, <3>2
  <2>7. CASE ~s.ok
    <3> DEFINE w == unpreparePreview(s.h)
    <3>1. w \in Hal /\ SameRest(s.h, w) /\ OnlyGone(s.h, w)
      BY <2>3, UnprepareFacts
    <3>2. o = Out(w, FALSE)
      BY <2>1, <2>7
    <3> HIDE DEF w
    <3>3. o \in Outcome /\ o.h = w /\ o.ok = FALSE
      BY <3>1, <3>2 DEF Out, Outcome
    <3>4. SameRest(h, w)
      BY <2>4, <3>1 DEF SameRest
    <3>5. NoNewVideo(h, w)
      BY <2>2, <2>5, <2>7, <3>1, ChannelNames DEF NoNewVideo, OnlyGone
    <3>6. "start" \in Failures
      BY <1>2, <1>4, <1>6, <2>2, <2>7
    <3> QED BY <3>3, <3>4, <3>5, <3>6
  <2> QED BY <2>3, <2>6, <2>7
<1> QED BY <1>3, <1>5, <1>6

-----------------------------------------------------------------------------
(* What the operators on parameters and pictures return.                   *)

\* Two values of hal that differ in the post-processor and the channels only.
SameFlags(h, k) ==
  /\ k.zsl = h.zsl /\ k.zslNew = h.zslNew /\ k.hint = h.hint /\ k.hintNew = h.hintNew
  /\ k.hintKey = h.hintKey /\ k.window = h.window

\* The changes of a call are noted; the committed parameters stay.
LEMMA UpdateFacts ==
  ASSUME NEW h \in Hal, NEW p \in Changes
  PROVE  /\ updateParameters(h, p) \in Hal
         /\ updateParameters(h, p).chan = h.chan /\ updateParameters(h, p).pp = h.pp
         /\ updateParameters(h, p).zsl = h.zsl /\ updateParameters(h, p).hint = h.hint
         /\ updateParameters(h, p).hintKey = h.hintKey
         /\ updateParameters(h, p).hintNew = IF p.hint # h.hintKey THEN p.hint ELSE h.hintNew
<1>1. p.zsl \in BOOLEAN /\ p.hint \in BOOLEAN
  BY DEF Changes
<1> DEFINE n == IF p.hint # h.hintKey THEN p.hint ELSE h.hintNew
<1>2. n \in BOOLEAN
  BY <1>1, HalFields
<1>3. updateParameters(h, p) = [h EXCEPT !.zslNew = p.zsl, !.hintNew = n]
  BY DEF updateParameters, Hal
<1> HIDE DEF n
<1>4. LET u == [h EXCEPT !.zslNew = p.zsl, !.hintNew = n] IN
      /\ u \in Hal /\ u.chan = h.chan /\ u.pp = h.pp /\ u.zsl = h.zsl /\ u.hint = h.hint
      /\ u.hintKey = h.hintKey /\ u.hintNew = n
  BY <1>1, <1>2 DEF Hal
<1> QED BY <1>3, <1>4 DEF n

\* What is new becomes current.
LEMMA CommittedFacts ==
  ASSUME NEW h \in Hal
  PROVE  /\ Committed(h) \in Hal /\ Committed(h).chan = h.chan /\ Committed(h).pp = h.pp
         /\ Committed(h).hint = h.hintNew /\ Committed(h).hintNew = h.hintNew
BY DEF Committed, Hal

\* A commit makes what is new current, or fails and changes nothing.
LEMMA CommitFacts ==
  ASSUME NEW h \in Hal, NEW p \in Changes, NEW o \in commitParameters(h, p)
  PROVE  /\ o \in Outcome /\ o.h.chan = h.chan /\ o.h.pp = h.pp /\ o.h.hintNew = h.hintNew
         /\ o.ok => o.h.hint = h.hintNew
         /\ ~o.ok => o.h = h /\ "params" \in Failures
<1>1. PICK ok \in May("params") :
        o = Out(IF ok THEN [Committed(h) EXCEPT !.hintKey = p.hint] ELSE h, ok)
  BY DEF commitParameters
<1>2. ok \in BOOLEAN /\ (~ok => "params" \in Failures)
  BY DEF May
<1>3. CASE ~ok
  <2>1. o = Out(h, FALSE)
    BY <1>1, <1>2, <1>3
  <2> QED BY <1>2, <1>3, <2>1 DEF Out, Outcome
<1>4. CASE ok
  <2> DEFINE c == Committed(h)
             k == [c EXCEPT !.hintKey = p.hint]
  <2>1. /\ c \in Hal /\ c.chan = h.chan /\ c.pp = h.pp
        /\ c.hint = h.hintNew /\ c.hintNew = h.hintNew
    BY CommittedFacts
  <2>2. p.hint \in BOOLEAN
    BY DEF Changes
  <2> HIDE DEF c
  <2>3. /\ k \in Hal /\ k.chan = c.chan /\ k.pp = c.pp
        /\ k.hint = c.hint /\ k.hintNew = c.hintNew
    BY <2>1, <2>2 DEF Hal
  <2>4. o = Out(k, TRUE)
    BY <1>1, <1>2, <1>4 DEF c
  <2> HIDE DEF k
  <2>5. o.h = k /\ o.ok = TRUE /\ o \in Outcome
    BY <2>3, <2>4 DEF Out, Outcome
  <2> QED BY <2>1, <2>3, <2>5
<1> QED BY <1>3, <1>4

\* A commit whose result nobody looks at.
LEMMA CommitAnywayFacts ==
  ASSUME NEW h \in Hal, NEW p \in Changes, NEW c \in CommitAnyway(h, p)
  PROVE  /\ c \in Hal /\ c.chan = h.chan /\ c.pp = h.pp /\ c.hintNew = h.hintNew
         /\ "params" \in Failures \/ c.hint = h.hintNew
<1>1. PICK o \in commitParameters(h, p) : c = o.h
  BY DEF CommitAnyway
<1>2. /\ o \in Outcome /\ o.h.chan = h.chan /\ o.h.pp = h.pp /\ o.h.hintNew = h.hintNew
      /\ o.ok => o.h.hint = h.hintNew
      /\ ~o.ok => o.h = h /\ "params" \in Failures
  BY CommitFacts
<1> QED BY <1>1, <1>2 DEF Outcome

\* Starting and stopping the post-processor.
LEMMA PpStartFacts ==
  ASSUME NEW h \in Hal, NEW o \in ppStart(h)
  PROVE  /\ o \in Outcome /\ SameFlags(h, o.h) /\ o.h.chan = h.chan
         /\ ~o.ok => o.h.pp = h.pp
<1>1. PICK ok \in BOOLEAN : o = Out([h EXCEPT !.pp = ok \/ @], ok)
  BY DEF ppStart, May
<1> DEFINE b == ok \/ h.pp
           k == [h EXCEPT !.pp = b]
<1>2. b \in BOOLEAN /\ (~ok => b = h.pp)
  BY HalFields
<1>3. o = Out(k, ok)
  BY <1>1 DEF Hal
<1> HIDE DEF b
<1>4. k \in Hal /\ k.chan = h.chan /\ k.pp = b /\ SameFlags(h, k)
  BY <1>2 DEF Hal, SameFlags
<1> HIDE DEF k
<1>5. o.h = k /\ o.ok = ok /\ o \in Outcome
  BY <1>3, <1>4 DEF Out, Outcome
<1> QED BY <1>2, <1>4, <1>5

\* Stopping the post-processor leaves all else alone.
LEMMA PpStopFacts ==
  ASSUME NEW h \in Hal
  PROVE  /\ ppStop(h) \in Hal /\ SameFlags(h, ppStop(h)) /\ ppStop(h).chan = h.chan
         /\ ppStop(h).pp = FALSE
BY DEF ppStop, Hal, SameFlags

\* A live snapshot uses the SNAPSHOT channel only.
LEMMA LiveSnapshotFacts ==
  ASSUME NEW h \in Hal, NEW o \in takeLiveSnapshot(h)
  PROVE  /\ o \in Outcome /\ SameFlags(h, o.h)
         /\ \A c \in Channels \ {"SNAPSHOT"} : o.h.chan[c] = h.chan[c]
         /\ o.h.chan["SNAPSHOT"] = "none" <=> h.chan["SNAPSHOT"] = "none"
         /\ ~o.ok => \/ o.h.pp = h.pp
                     \/ "start" \in Failures \/ h.chan["SNAPSHOT"] = "none"
<1>1. PICK s \in ppStart(h) : o \in IF s.ok THEN startChannel(s.h, "SNAPSHOT") ELSE {s}
  BY DEF takeLiveSnapshot, AndThen
<1>2. /\ s \in Outcome /\ SameFlags(h, s.h) /\ s.h.chan = h.chan
      /\ ~s.ok => s.h.pp = h.pp
  BY PpStartFacts
<1>3. s.h \in Hal
  BY <1>2 DEF Outcome
<1>4. CASE ~s.ok
  <2>1. o = s
    BY <1>1, <1>4
  <2> QED BY <1>2, <1>4, <2>1
<1>5. CASE s.ok
  <2>1. o \in startChannel(s.h, "SNAPSHOT") /\ "SNAPSHOT" \in Channels
    BY <1>1, <1>5 DEF Channels
  <2>2. /\ o \in Outcome /\ SameRest(s.h, o.h)
        /\ \A c \in Channels \ {"SNAPSHOT"} : o.h.chan[c] = s.h.chan[c]
        /\ o.ok => o.h.chan["SNAPSHOT"] = "running" /\ s.h.chan["SNAPSHOT"] # "none"
        /\ ~o.ok => o.h = s.h /\ (s.h.chan["SNAPSHOT"] = "none" \/ "start" \in Failures)
    BY <1>3, <2>1, StartFacts
  <2>3. o.ok \in BOOLEAN
    BY <2>2 DEF Outcome
  <2>4. SameFlags(h, o.h)
    BY <1>2, <2>2 DEF SameFlags, SameRest
  <2> QED BY <1>2, <2>2, <2>3, <2>4
<1> QED BY <1>4, <1>5

\* Giving it up stops the channel and the post-processor.
LEMMA CancelLiveFacts ==
  ASSUME NEW h \in Hal
  PROVE  /\ cancelLiveSnapshot(h) \in Hal /\ SameFlags(h, cancelLiveSnapshot(h))
         /\ \A c \in Channels \ {"SNAPSHOT"} : cancelLiveSnapshot(h).chan[c] = h.chan[c]
         /\ cancelLiveSnapshot(h).chan["SNAPSHOT"] = "none" <=> h.chan["SNAPSHOT"] = "none"
         /\ cancelLiveSnapshot(h).pp = FALSE
<1> DEFINE s == ppStop(h)
           o == stopChannel(s, "SNAPSHOT")
<1>1. s \in Hal /\ SameFlags(h, s) /\ s.chan = h.chan /\ s.pp = FALSE
  BY PpStopFacts
<1> HIDE DEF s
<1>2. "SNAPSHOT" \in Channels
  BY DEF Channels
<1>3. /\ o \in Outcome /\ SameRest(s, o.h)
      /\ \A c \in Channels \ {"SNAPSHOT"} : o.h.chan[c] = s.chan[c]
      /\ o.h.chan["SNAPSHOT"] = IF s.chan["SNAPSHOT"] = "none" THEN "none" ELSE "stopped"
  BY <1>1, <1>2, StopFacts
<1>4. cancelLiveSnapshot(h) = o.h
  BY DEF cancelLiveSnapshot, s
<1> HIDE DEF o
<1>5. o.h \in Hal /\ SameFlags(h, o.h) /\ o.h.pp = FALSE
  BY <1>1, <1>3 DEF Outcome, SameFlags, SameRest
<1> QED BY <1>1, <1>3, <1>4, <1>5

\* Giving up a picture stops the post-processor, and may delete its channel.
LEMMA CancelFacts ==
  ASSUME NEW h \in Hal
  PROVE  /\ cancelPicture(h) \in Hal /\ SameFlags(h, cancelPicture(h))
         /\ \A c \in Channels \ {"CAPTURE"} : cancelPicture(h).chan[c] = h.chan[c]
         /\ cancelPicture(h).pp = FALSE
<1> DEFINE s == ppStop(h)
           w == delChannels(s, {"CAPTURE"})
<1>1. s \in Hal /\ SameFlags(h, s) /\ s.chan = h.chan /\ s.pp = FALSE
  BY PpStopFacts
<1>2. cancelPicture(h) = s \/ cancelPicture(h) = w
  BY DEF cancelPicture
<1> HIDE DEF s
<1>3. /\ w \in Hal /\ SameRest(s, w)
      /\ \A c \in Channels : w.chan[c] = IF c \in {"CAPTURE"} THEN "none" ELSE s.chan[c]
  BY <1>1, DelFacts
<1> HIDE DEF w
<1>4. SameFlags(h, w) /\ w.pp = FALSE /\ \A c \in Channels \ {"CAPTURE"} : w.chan[c] = h.chan[c]
  BY <1>1, <1>3 DEF SameFlags, SameRest
<1> QED BY <1>1, <1>2, <1>3, <1>4

\* The post-processor is started and the result not looked at.
LEMMA PpAnywayFacts ==
  ASSUME NEW h \in Hal, NEW o \in ppAnyway(h)
  PROVE  o.h \in Hal /\ o.ok = TRUE /\ SameFlags(h, o.h) /\ o.h.chan = h.chan
<1>1. PICK s \in ppStart(h) : o = Out(s.h, TRUE)
  BY DEF ppAnyway
<1>2. s \in Outcome /\ SameFlags(h, s.h) /\ s.h.chan = h.chan
  BY PpStartFacts
<1> QED BY <1>1, <1>2 DEF Out, Outcome

\* The channel of the picture takes the place of the preview's.
LEMMA ToCaptureFacts ==
  ASSUME NEW h \in Hal, NEW o \in toCapture(h)
  PROVE  /\ o \in Outcome /\ SameRest(h, o.h)
         /\ o.ok => /\ o.h.chan["PREVIEW"] = "none" /\ o.h.chan["CAPTURE"] = "stopped"
                    /\ \A c \in {"ZSL", "VIDEO", "SNAPSHOT"} : o.h.chan[c] = h.chan[c]
         /\ ~o.ok => "add" \in Failures /\ OnlyGone(h, o.h)
<1> DEFINE d == delChannels(h, {"PREVIEW"})
<1>1. /\ d \in Hal /\ SameRest(h, d) /\ OnlyGone(h, d)
      /\ \A c \in Channels : d.chan[c] = IF c \in {"PREVIEW"} THEN "none" ELSE h.chan[c]
  BY DelFacts
<1>2. o \in addChannels(d, <<"CAPTURE">>)
  BY DEF toCapture
<1> HIDE DEF d
<1>3. {<<"CAPTURE">>[i] : i \in 1..Len(<<"CAPTURE">>)} = {"CAPTURE"}
  OBVIOUS
<1>4. /\ o \in Outcome /\ SameRest(d, o.h)
      /\ o.ok => \A c \in Channels :
           o.h.chan[c] = IF c \in {"CAPTURE"} THEN "stopped" ELSE d.chan[c]
      /\ ~o.ok => "add" \in Failures /\ OnlyGone(d, o.h)
  BY <1>1, <1>2, <1>3, AddFacts
<1>5. SameRest(h, o.h)
  BY <1>1, <1>4 DEF SameRest
<1>6. ~o.ok => OnlyGone(h, o.h)
  BY <1>1, <1>4 DEF OnlyGone
<1>7. o.ok => /\ o.h.chan["PREVIEW"] = "none" /\ o.h.chan["CAPTURE"] = "stopped"
              /\ \A c \in {"ZSL", "VIDEO", "SNAPSHOT"} : o.h.chan[c] = h.chan[c]
  BY <1>1, <1>4, ChannelNames
<1> QED BY <1>4, <1>5, <1>6, <1>7

\* Taking a picture: with ZSL the channels stay; without, the preview is gone.  When
\* it fails, the post-processor does not stay on.
LEMMA TakeFacts ==
  ASSUME NEW h \in Hal, NEW o \in takePicture(h)
  PROVE  /\ o \in Outcome /\ SameFlags(h, o.h) /\ NoNewVideo(h, o.h)
         /\ h.zsl => o.h.chan = h.chan
         /\ o.ok /\ ~h.zsl => o.h.chan["PREVIEW"] = "none"
         /\ ~o.ok /\ ~h.pp => ~o.h.pp
         /\ \/ "add" \in Failures
            \/ \A c \in {"VIDEO", "SNAPSHOT"} : o.h.chan[c] = h.chan[c]
<1>1. CASE h.zsl /\ h.chan["ZSL"] = "none"
  <2>1. o = Out(h, FALSE)
    BY <1>1 DEF takePicture
  <2> QED BY <1>1, <2>1 DEF Out, Outcome, SameFlags, NoNewVideo
<1>2. CASE h.zsl /\ h.chan["ZSL"] # "none"
  <2>1. PICK p \in ppAnyway(h) :
          o \in IF p.ok THEN OnFailure({Out(p.h, ok) : ok \in May("take")}, ppStop) ELSE {p}
    BY <1>2 DEF takePicture, AndThen
  <2>2. p.h \in Hal /\ p.ok = TRUE /\ SameFlags(h, p.h) /\ p.h.chan = h.chan
    BY PpAnywayFacts
  <2>3. PICK ok \in May("take") :
          o = IF Out(p.h, ok).ok THEN Out(p.h, ok) ELSE Out(ppStop(Out(p.h, ok).h), FALSE)
    <3>1. o \in OnFailure({Out(p.h, ok) : ok \in May("take")}, ppStop)
      BY <2>1, <2>2
    <3> QED BY <3>1 DEF OnFailure
  <2>4. ok \in BOOLEAN /\ Out(p.h, ok).ok = ok /\ Out(p.h, ok).h = p.h
    BY OutFacts DEF May
  <2>5. CASE ok
    <3>1. o = Out(p.h, TRUE)
      BY <2>3, <2>4, <2>5
    <3>2. o.h = p.h /\ o.ok = TRUE /\ o \in Outcome
      BY <2>2, <3>1 DEF Out, Outcome
    <3> QED BY <1>2, <2>2, <3>2 DEF NoNewVideo
  <2>6. CASE ~ok
    <3> DEFINE k == ppStop(p.h)
    <3>1. k \in Hal /\ SameFlags(p.h, k) /\ k.chan = p.h.chan /\ k.pp = FALSE
      BY <2>2, PpStopFacts
    <3>2. o = Out(k, FALSE)
      BY <2>3, <2>4, <2>6
    <3> HIDE DEF k
    <3>3. o.h = k /\ o.ok = FALSE /\ o \in Outcome
      BY <3>1, <3>2 DEF Out, Outcome
    <3>4. SameFlags(h, k)
      BY <2>2, <3>1 DEF SameFlags
    <3> QED BY <1>2, <2>2, <3>1, <3>3, <3>4 DEF NoNewVideo
  <2> QED BY <2>4, <2>5, <2>6
<1>3. CASE ~h.zsl
  <2>1. PICK a \in toCapture(h) :
          o \in IF a.ok
                THEN AndThen(ppAnyway(a.h), LAMBDA p :
                       OnFailure(startChannel(p, "CAPTURE"),
                                 LAMBDA f : delChannels(ppStop(f), {"CAPTURE"})))
                ELSE {a}
    BY <1>3 DEF takePicture, AndThen
  <2>2. /\ a \in Outcome /\ SameRest(h, a.h)
        /\ a.ok => /\ a.h.chan["PREVIEW"] = "none" /\ a.h.chan["CAPTURE"] = "stopped"
                   /\ \A c \in {"ZSL", "VIDEO", "SNAPSHOT"} : a.h.chan[c] = h.chan[c]
        /\ ~a.ok => "add" \in Failures /\ OnlyGone(h, a.h)
    BY ToCaptureFacts
  <2>3. a.h \in Hal /\ a.ok \in BOOLEAN /\ SameFlags(h, a.h) /\ a.h.pp = h.pp
    BY <2>2 DEF Outcome, SameRest, SameFlags
  <2>4. CASE ~a.ok
    <3>1. o = a
      BY <2>1, <2>4
    <3>2. NoNewVideo(h, a.h)
      BY <2>2, <2>4, ChannelNames DEF NoNewVideo, OnlyGone
    <3> QED BY <1>3, <2>2, <2>3, <2>4, <3>1, <3>2
  <2>5. CASE a.ok
    <3>1. PICK p \in ppAnyway(a.h) :
            o \in IF p.ok
                  THEN OnFailure(startChannel(p.h, "CAPTURE"),
                                 LAMBDA f : delChannels(ppStop(f), {"CAPTURE"}))
                  ELSE {p}
      BY <2>1, <2>5 DEF AndThen
    <3>2. p.h \in Hal /\ p.ok = TRUE /\ SameFlags(a.h, p.h) /\ p.h.chan = a.h.chan
      BY <2>3, PpAnywayFacts
    <3>3. PICK s \in startChannel(p.h, "CAPTURE") :
            o = IF s.ok THEN s ELSE Out(delChannels(ppStop(s.h), {"CAPTURE"}), FALSE)
      BY <3>1, <3>2 DEF OnFailure
    <3>4. "CAPTURE" \in Channels
      BY DEF Channels
    <3>5. /\ s \in Outcome /\ SameRest(p.h, s.h)
          /\ \A c \in Channels \ {"CAPTURE"} : s.h.chan[c] = p.h.chan[c]
      BY <3>2, <3>4, StartFacts
    <3>6. s.h \in Hal /\ s.ok \in BOOLEAN /\ SameFlags(h, s.h)
      BY <2>3, <3>2, <3>5 DEF Outcome, SameRest, SameFlags
    <3>7. /\ s.h.chan["PREVIEW"] = "none"
          /\ \A c \in {"VIDEO", "SNAPSHOT"} : s.h.chan[c] = h.chan[c]
      BY <2>2, <2>5, <3>2, <3>5, ChannelNames
    <3>8. CASE s.ok
      <4>1. o = s
        BY <3>3, <3>8
      <4> QED BY <1>3, <3>5, <3>6, <3>7, <3>8, <4>1 DEF NoNewVideo
    <3>9. CASE ~s.ok
      <4> DEFINE k == ppStop(s.h)
                 w == delChannels(k, {"CAPTURE"})
      <4>1. k \in Hal /\ SameFlags(s.h, k) /\ k.chan = s.h.chan /\ k.pp = FALSE
        BY <3>6, PpStopFacts
      <4>2. o = Out(w, FALSE)
        BY <3>3, <3>9
      <4> HIDE DEF k
      <4>3. /\ w \in Hal /\ SameRest(k, w)
            /\ \A c \in Channels : w.chan[c] = IF c \in {"CAPTURE"} THEN "none" ELSE k.chan[c]
        BY <4>1, DelFacts
      <4> HIDE DEF w
      <4>4. o.h = w /\ o.ok = FALSE /\ o \in Outcome
        BY <4>2, <4>3 DEF Out, Outcome
      <4>5. SameFlags(h, w) /\ w.pp = FALSE
        BY <3>6, <4>1, <4>3 DEF SameFlags, SameRest
      <4>6. \A c \in {"VIDEO", "SNAPSHOT"} : w.chan[c] = h.chan[c]
        BY <3>7, <4>1, <4>3, ChannelNames
      <4> QED BY <1>3, <4>4, <4>5, <4>6 DEF NoNewVideo
    <3> QED BY <3>6, <3>8, <3>9
  <2> QED BY <2>3, <2>4, <2>5
<1>4. h.zsl \in BOOLEAN
  BY HalFields
<1> QED BY <1>1, <1>2, <1>3, <1>4

\* Nothing that is done on the way to a recording fails.
Steady == Failures \cap {"add", "start", "params"} = {}

\* The recording hint is set for the recording.
LEMMA SetHintFacts ==
  ASSUME NEW h \in Hal, NEW n \in SetHint(h)
  PROVE  /\ n \in Hal /\ n.chan = h.chan /\ n.pp = h.pp
         /\ "params" \in Failures \/ n.hint
<1> DEFINE k == [h EXCEPT !.hintNew = TRUE]
<1>1. k \in Hal /\ k.chan = h.chan /\ k.pp = h.pp /\ k.hintNew = TRUE
  BY DEF Hal
<1>2. PICK ok \in May("params") : n = IF ok THEN Committed(k) ELSE k
  BY DEF SetHint
<1> HIDE DEF k
<1>3. /\ Committed(k) \in Hal /\ Committed(k).chan = k.chan /\ Committed(k).pp = k.pp
      /\ Committed(k).hint = k.hintNew
  BY <1>1, CommittedFacts
<1>4. ok \in BOOLEAN /\ (~ok => "params" \in Failures)
  BY DEF May
<1>5. CASE ok
  <2>1. n = Committed(k)
    BY <1>2, <1>5
  <2> QED BY <1>1, <1>3, <2>1
<1>6. CASE ~ok
  <2>1. n = k
    BY <1>2, <1>6
  <2> QED BY <1>1, <1>4, <1>6, <2>1
<1> QED BY <1>4, <1>5, <1>6

\* Restarting the preview for a recording.
Ready(n) == AndThen(preparePreview(n), LAMBDA p : startChannel(p, "PREVIEW"))

\* What that gives: no video runs that did not, and with the hint all three channels.
LEMMA ReadyFacts ==
  ASSUME NEW h \in Hal, NEW n \in Hal, n.chan = h.chan, n.pp = h.pp,
         NEW r \in Ready(n)
  PROVE  /\ r \in Outcome /\ r.h.pp = h.pp /\ NoNewVideo(h, r.h)
         /\ n.hint /\ Steady =>
              /\ r.ok /\ r.h.hint /\ r.h.chan["PREVIEW"] = "running"
              /\ r.h.chan["VIDEO"] = "stopped" /\ r.h.chan["SNAPSHOT"] = "stopped"
<1>1. PICK p \in preparePreview(n) : r \in IF p.ok THEN startChannel(p.h, "PREVIEW") ELSE {p}
  BY DEF Ready, AndThen
<1>2. /\ p \in Outcome /\ SameRest(n, p.h)
      /\ p.ok => \A c \in Channels :
           p.h.chan[c] = IF c \in PreviewSet(n) THEN "stopped" ELSE n.chan[c]
      /\ ~p.ok => "add" \in Failures /\ OnlyGone(n, p.h)
  BY PrepareFacts
<1>3. p.h \in Hal /\ p.ok \in BOOLEAN
  BY <1>2 DEF Outcome
<1>4. CASE ~p.ok
  <2>1. r = p
    BY <1>1, <1>4
  <2>2. NoNewVideo(h, p.h) /\ ~Steady /\ p.h.pp = h.pp
    BY <1>2, <1>4, ChannelNames DEF NoNewVideo, OnlyGone, Steady, SameRest
  <2> QED BY <1>2, <2>1, <2>2
<1>5. CASE p.ok
  <2>1. r \in startChannel(p.h, "PREVIEW") /\ "PREVIEW" \in Channels
    BY <1>1, <1>5 DEF Channels
  <2>2. /\ r \in Outcome /\ SameRest(p.h, r.h)
        /\ \A c \in Channels \ {"PREVIEW"} : r.h.chan[c] = p.h.chan[c]
        /\ r.ok => r.h.chan["PREVIEW"] = "running" /\ p.h.chan["PREVIEW"] # "none"
        /\ ~r.ok => r.h = p.h /\ (p.h.chan["PREVIEW"] = "none" \/ "start" \in Failures)
    BY <1>3, <2>1, StartFacts
  <2>3. p.h.pp = h.pp /\ r.h.pp = h.pp /\ r.h.hint = n.hint
    BY <1>2, <2>2 DEF SameRest
  <2>4. NoNewVideo(h, r.h)
    BY <1>2, <1>5, <2>2, ChannelNames DEF NoNewVideo
  <2>5. ASSUME n.hint, Steady
        PROVE  /\ r.ok /\ r.h.hint /\ r.h.chan["PREVIEW"] = "running"
               /\ r.h.chan["VIDEO"] = "stopped" /\ r.h.chan["SNAPSHOT"] = "stopped"
    <3>1. PreviewSet(n) = {"SNAPSHOT", "VIDEO", "PREVIEW"}
      BY <2>5 DEF PreviewSet
    <3>2. /\ p.h.chan["PREVIEW"] = "stopped" /\ p.h.chan["VIDEO"] = "stopped"
          /\ p.h.chan["SNAPSHOT"] = "stopped"
      BY <1>2, <1>5, <3>1, ChannelNames
    <3>3. "start" \notin Failures
      BY <2>5 DEF Steady
    <3>4. r.ok
      BY <2>2, <3>2, <3>3 DEF Outcome
    <3> QED BY <2>2, <2>3, <2>5, <3>2, <3>4, ChannelNames
  <2> QED BY <2>2, <2>3, <2>4, <2>5
<1> QED BY <1>3, <1>4, <1>5

\* Starting a recording: when it fails, no video runs that did not; with the hint only
\* the VIDEO channel is started; without, the preview is restarted with all three.
LEMMA RecordFacts ==
  ASSUME NEW h \in Hal, NEW o \in startRecording(h)
  PROVE  /\ o \in Outcome /\ o.h.pp = h.pp
         /\ ~o.ok => NoNewVideo(h, o.h)
         /\ h.hint => /\ SameRest(h, o.h)
                      /\ \A c \in Channels \ {"VIDEO"} : o.h.chan[c] = h.chan[c]
                      /\ o.h.chan["VIDEO"] = "none" <=> h.chan["VIDEO"] = "none"
                      /\ o.ok => o.h.chan["VIDEO"] = "running"
         /\ ~h.hint /\ Steady =>
              /\ o.ok /\ o.h.hint /\ Shows(o.h)
              /\ o.h.chan["VIDEO"] = "running" /\ o.h.chan["SNAPSHOT"] = "stopped"
<1>1. "VIDEO" \in Channels
  BY DEF Channels
<1>2. CASE h.hint
  <2>1. o \in AndThen({Out(h, TRUE)}, LAMBDA r : startChannel(r, "VIDEO"))
    BY <1>2 DEF startRecording
  <2>2. o \in startChannel(h, "VIDEO")
    <3>1. o \in IF Out(h, TRUE).ok THEN startChannel(Out(h, TRUE).h, "VIDEO") ELSE {Out(h, TRUE)}
      BY <2>1 DEF AndThen
    <3>2. Out(h, TRUE).ok = TRUE /\ Out(h, TRUE).h = h
      BY OutFacts
    <3> QED BY <3>1, <3>2
  <2>3. /\ o \in Outcome /\ SameRest(h, o.h)
        /\ \A c \in Channels \ {"VIDEO"} : o.h.chan[c] = h.chan[c]
        /\ o.ok => o.h.chan["VIDEO"] = "running" /\ h.chan["VIDEO"] # "none"
        /\ ~o.ok => o.h = h /\ (h.chan["VIDEO"] = "none" \/ "start" \in Failures)
    BY <1>1, <2>2, StartFacts
  <2>4. o.ok \in BOOLEAN
    BY <2>3 DEF Outcome
  <2> QED BY <1>2, <2>3, <2>4 DEF NoNewVideo, SameRest
<1>3. CASE ~h.hint
  <2> DEFINE d == delChannels(h, {"PREVIEW"})
             ready == UNION {Ready(n) : n \in SetHint(d)}
  <2>1. d \in Hal /\ SameRest(h, d) /\ OnlyGone(h, d)
    BY DelFacts
  <2>2. o \in AndThen(ready, LAMBDA r : startChannel(r, "VIDEO"))
    BY <1>3 DEF startRecording, Ready
  <2> HIDE DEF d
  <2>3. PICK r \in ready : o \in IF r.ok THEN startChannel(r.h, "VIDEO") ELSE {r}
    <3> HIDE DEF ready
    <3> QED BY <2>2 DEF AndThen
  <2>4. PICK n \in SetHint(d) : r \in Ready(n)
    BY <2>3
  <2> HIDE DEF ready
  <2>5. /\ n \in Hal /\ n.chan = d.chan /\ n.pp = d.pp
        /\ "params" \in Failures \/ n.hint
    BY <2>1, SetHintFacts
  <2>6. /\ r \in Outcome /\ r.h.pp = d.pp /\ NoNewVideo(d, r.h)
        /\ n.hint /\ Steady =>
              /\ r.ok /\ r.h.hint /\ r.h.chan["PREVIEW"] = "running"
              /\ r.h.chan["VIDEO"] = "stopped" /\ r.h.chan["SNAPSHOT"] = "stopped"
    BY <2>1, <2>4, <2>5, ReadyFacts
  <2>7. r.h \in Hal /\ r.ok \in BOOLEAN /\ r.h.pp = h.pp /\ NoNewVideo(h, r.h)
    BY <2>1, <2>6, ChannelNames DEF Outcome, SameRest, OnlyGone, NoNewVideo
  <2>8. Steady => n.hint
    BY <2>5 DEF Steady
  <2>9. CASE ~r.ok
    <3>1. o = r
      BY <2>3, <2>9
    <3> QED BY <1>3, <2>6, <2>7, <2>8, <2>9, <3>1
  <2>10. CASE r.ok
    <3>1. o \in startChannel(r.h, "VIDEO")
      BY <2>3, <2>10
    <3>2. /\ o \in Outcome /\ SameRest(r.h, o.h)
          /\ \A c \in Channels \ {"VIDEO"} : o.h.chan[c] = r.h.chan[c]
          /\ o.ok => o.h.chan["VIDEO"] = "running" /\ r.h.chan["VIDEO"] # "none"
          /\ ~o.ok => o.h = r.h /\ (r.h.chan["VIDEO"] = "none" \/ "start" \in Failures)
      BY <1>1, <2>7, <3>1, StartFacts
    <3>3. o.h.pp = h.pp /\ o.h.hint = r.h.hint /\ o.ok \in BOOLEAN
      BY <2>7, <3>2 DEF SameRest, Outcome
    <3>4. ~o.ok => NoNewVideo(h, o.h)
      BY <2>7, <3>2
    <3>5. ASSUME Steady
          PROVE  /\ o.ok /\ o.h.hint /\ Shows(o.h)
                 /\ o.h.chan["VIDEO"] = "running" /\ o.h.chan["SNAPSHOT"] = "stopped"
      <4>1. "start" \notin Failures
        BY <3>5 DEF Steady
      <4>2. o.ok
        BY <2>6, <2>8, <3>2, <3>3, <3>5, <4>1
      <4> QED BY <2>6, <2>8, <3>2, <3>3, <3>5, <4>2, ChannelNames DEF Shows
    <3> QED BY <1>3, <3>2, <3>3, <3>4, <3>5
  <2> QED BY <2>7, <2>9, <2>10
<1>4. h.hint \in BOOLEAN
  BY HalFields
<1> QED BY <1>2, <1>3, <1>4

-----------------------------------------------------------------------------
(* What a handler keeps.                                                   *)

NoAddStart == Failures \cap {"add", "start"} = {}

\* The invariants, of a state and a value of hal.
RecordsOnly(st, h) == h.chan["VIDEO"] = "running" => st \in RecStates
Shown(st, h) == st \in PreviewStates => Shows(h)
Alone(st, h) == st = "PIC_TAKING" => h.chan["PREVIEW"] # "running"

\* The post-processor works only in the states that take pictures.  A live snapshot
\* cannot fail behind it: whoever is asked for one has the SNAPSHOT channel, because
\* it comes and goes with the VIDEO channel, a recording has that, and a preview whose
\* recording hint is set, or will be by the next commit, has both.
Pics(st, h) ==
  /\ h.chan["VIDEO"] = "none" <=> h.chan["SNAPSHOT"] = "none"
  /\ st \in RecStates => h.chan["VIDEO"] # "none"
  /\ h.hint /\ st \in PreviewStates \cup {"PREVIEW_READY"} => h.chan["SNAPSHOT"] # "none"
  /\ h.hintNew /\ ~h.hint => h.chan["SNAPSHOT"] # "none"
  /\ h.pp => st \in PicStates

\* A command: its argument is what its name says.
IsCmd(e) == /\ e.evt = "SET_PARAMS" => e.arg \in Changes
            /\ e.evt = "SET_PREVIEW_WINDOW" => e.arg \in BOOLEAN
\* One that neither releases the camera nor is refused for its parameters.
IsCalm(e) == e.evt # "RELEASE" /\ (e.evt = "SET_PARAMS" => e.arg.other # "bad")

Reply == [st : States, h : Hal, ok : BOOLEAN, to : {"api", "notifier", "nobody"}]

Kept(st, h, e, r) ==
  /\ r \in Reply
  /\ RecordsOnly(st, h) => RecordsOnly(r.st, r.h)
  /\ Steady /\ Shown(st, h) => Shown(r.st, r.h)
  /\ NoAddStart /\ Alone(st, h) => Alone(r.st, r.h)
  /\ Steady /\ IsCalm(e) /\ Pics(st, h) => Pics(r.st, r.h)
  /\ r.to = "notifier" => e.evt = "SNAPSHOT_DONE"
  /\ r.st = "PREPARE_SNAPSHOT" => st \in {"PREVIEWING", "PREPARE_SNAPSHOT"}

\* The kinds of reply.
LEMMA GoToFacts ==
  ASSUME NEW S \in SUBSET Outcome, NEW a \in States, NEW b \in States, NEW r \in GoTo(S, a, b)
  PROVE  /\ r \in Reply /\ r.to = "api"
         /\ \E o \in S : r.h = o.h /\ r.st = (IF o.ok THEN a ELSE b) /\ r.ok = o.ok
<1>1. PICK o \in S : r = [st |-> IF o.ok THEN a ELSE b, h |-> o.h, ok |-> o.ok, to |-> "api"]
  BY DEF GoTo
<1>2. o.h \in Hal /\ o.ok \in BOOLEAN
  BY DEF Outcome
<1>3. (IF o.ok THEN a ELSE b) \in States
  OBVIOUS
<1> QED BY <1>1, <1>2, <1>3 DEF Reply

\* A command that changes nothing leaves its state and what it works on alone.
LEMMA TellFacts ==
  ASSUME NEW h \in Hal, NEW st \in States,
         NEW r \in Done(h, st) \cup Invalid(h, st) \cup Silent(h, st)
  PROVE  r \in Reply /\ r.st = st /\ r.h = h /\ r.to # "notifier"
<1>1. ASSUME NEW ok \in BOOLEAN, r \in Answer({Out(h, ok)}, st)
      PROVE  r = [st |-> st, h |-> h, ok |-> ok, to |-> "api"]
  <2>1. r = [st |-> IF Out(h, ok).ok THEN st ELSE st, h |-> Out(h, ok).h,
             ok |-> Out(h, ok).ok, to |-> "api"]
    BY <1>1 DEF Answer, GoTo
  <2> QED BY <2>1, OutFacts
<1>2. \E ok \in BOOLEAN, to \in {"api", "nobody"} : r = [st |-> st, h |-> h, ok |-> ok, to |-> to]
  <2>1. CASE r \in Done(h, st) \cup Invalid(h, st)
    BY <1>1, <2>1 DEF Done, Invalid
  <2>2. CASE r \in Silent(h, st)
    BY <2>2 DEF Silent
  <2> QED BY <2>1, <2>2
<1> QED BY <1>2 DEF Reply

\* Answering the notifier's event.
LEMMA EvtDoneFacts ==
  ASSUME NEW h \in Hal, NEW st \in States, NEW r \in EvtDone(h, st)
  PROVE  r \in Reply /\ r.st = st /\ r.h = h
<1>1. r = [st |-> st, h |-> h, ok |-> TRUE, to |-> "notifier"]
  BY DEF EvtDone
<1> QED BY <1>1 DEF Reply

\* A command that changes nothing keeps everything.
LEMMA QuietKept ==
  ASSUME NEW h \in Hal, NEW st \in States, NEW e,
         NEW r \in Done(h, st) \cup Invalid(h, st) \cup Silent(h, st)
  PROVE  Kept(st, h, e, r)
BY TellFacts DEF Kept

\* Parameters that are refused stay with the new ones.
LEMMA RefuseKept ==
  ASSUME NEW h \in Hal, NEW st \in States, NEW e, e.arg \in Changes, e.evt = "SET_PARAMS",
         e.arg.other = "bad" \/ st \in RecStates,
         NEW r \in Invalid(updateParameters(h, e.arg), st)
  PROVE  Kept(st, h, e, r)
<1> DEFINE u == updateParameters(h, e.arg)
<1>1. u \in Hal /\ u.chan = h.chan /\ u.pp = h.pp /\ u.hint = h.hint
  BY UpdateFacts
<1> HIDE DEF u
<1>2. r \in Reply /\ r.st = st /\ r.h = u /\ r.to # "notifier"
  BY <1>1, TellFacts DEF u
<1>3. IsCalm(e) /\ Pics(st, h) => Pics(st, u)
  BY <1>1 DEF IsCalm, Pics
<1> QED BY <1>1, <1>2, <1>3 DEF Kept, RecordsOnly, Shown, Shows, Alone, RecStates

\* Parameters that need no restart are committed.
LEMMA CommitKept ==
  ASSUME NEW h \in Hal, NEW st \in States, NEW e, e.arg \in Changes,
         ~needRestart(h, e.arg) \/ st \in {"PREVIEW_STOPPED", "PIC_TAKING"},
         NEW r \in Answer(commitParameters(updateParameters(h, e.arg), e.arg), st)
  PROVE  Kept(st, h, e, r)
<1> DEFINE p == e.arg
           u == updateParameters(h, p)
<1>1. /\ u \in Hal /\ u.chan = h.chan /\ u.pp = h.pp /\ u.hint = h.hint
      /\ u.hintNew = IF p.hint # h.hintKey THEN p.hint ELSE h.hintNew
  BY UpdateFacts
<1>2. st \notin {"PREVIEW_STOPPED", "PIC_TAKING"} => ~(p.hint # h.hintKey /\ p.hint # h.hint)
  BY DEF needRestart
<1>3. p.hint \in BOOLEAN /\ h.hint \in BOOLEAN /\ h.hintNew \in BOOLEAN /\ p \in Changes
  BY HalFields DEF Changes
<1>4. r \in GoTo(commitParameters(u, p), st, st)
  BY DEF Answer
<1> HIDE DEF u
<1>5. \A o \in commitParameters(u, p) :
        /\ o \in Outcome /\ o.h.chan = u.chan /\ o.h.pp = u.pp /\ o.h.hintNew = u.hintNew
        /\ o.ok => o.h.hint = u.hintNew
        /\ ~o.ok => o.h = u /\ "params" \in Failures
  BY <1>1, <1>3, CommitFacts
<1>6. PICK o \in commitParameters(u, p) : r.h = o.h /\ r.st = (IF o.ok THEN st ELSE st)
  BY <1>4, <1>5, GoToFacts
<1>7. r \in Reply /\ r.to = "api" /\ r.st = st /\ r.h.chan = h.chan /\ r.h.pp = h.pp
  BY <1>1, <1>4, <1>5, <1>6, GoToFacts
<1>8. Steady => r.h.hint = u.hintNew /\ r.h.hintNew = u.hintNew
  BY <1>5, <1>6 DEF Steady
<1>9. Steady /\ Pics(st, h) => Pics(st, r.h)
  BY <1>1, <1>2, <1>3, <1>7, <1>8 DEF Pics, PreviewStates
<1> QED BY <1>7, <1>9 DEF Kept, RecordsOnly, Shown, Shows, Alone

\* The preview is restarted with the changed parameters.
LEMMA RestartKept ==
  ASSUME NEW h \in Hal, NEW e, e.arg \in Changes, NEW st, NEW fail,
         \/ st = "PREVIEWING" /\ fail = "PREVIEW_STOPPED"
         \/ st = "PREVIEW_PIC_TAKING" /\ fail = "PIC_TAKING",
         NEW r \in RestartPreview(updateParameters(h, e.arg), e.arg, st, fail)
  PROVE  Kept(st, h, e, r)
<1> DEFINE p == e.arg
           u == updateParameters(h, p)
           s == stopPreview(u)
           S == UNION {PrepareAndStart(c) : c \in CommitAnyway(s, p)}
<1>1. u \in Hal /\ u.chan = h.chan /\ u.pp = h.pp
  BY UpdateFacts
<1> HIDE DEF u
<1>2. /\ s \in Hal /\ SameRest(u, s) /\ OnlyGone(u, s)
      /\ \A c \in Channels : s.chan[c] = IF c \in PreviewSet(u) THEN "none" ELSE u.chan[c]
  BY <1>1, UnprepareFacts DEF stopPreview
<1>3. r \in GoTo(S, st, fail)
  BY DEF RestartPreview, u
<1> HIDE DEF s
<1>4. \A c \in CommitAnyway(s, p) :
        /\ c \in Hal /\ c.chan = s.chan /\ c.pp = s.pp /\ c.hintNew = s.hintNew
        /\ "params" \in Failures \/ c.hint = s.hintNew
  BY <1>2, CommitAnywayFacts
<1>5. ASSUME NEW o \in S
      PROVE  \E c \in CommitAnyway(s, p) :
               /\ o \in Outcome /\ SameRest(c, o.h) /\ NoNewVideo(c, o.h)
               /\ o.ok => /\ Shows(o.h)
                          /\ \A d \in {"VIDEO", "SNAPSHOT"} :
                               o.h.chan[d] = IF c.hint THEN "stopped" ELSE c.chan[d]
               /\ ~o.ok => "add" \in Failures \/ "start" \in Failures
  <2>1. PICK c \in CommitAnyway(s, p) : o \in PrepareAndStart(c)
    OBVIOUS
  <2> QED BY <1>4, <2>1, PrepareAndStartFacts
<1>6. st \in States /\ fail \in States
  BY DEF States, PicStates, RecStates
<1>7. S \in SUBSET Outcome
  BY <1>5
<1> HIDE DEF S
<1>8. PICK o \in S : r.h = o.h /\ r.st = (IF o.ok THEN st ELSE fail)
  BY <1>3, <1>6, <1>7, GoToFacts
<1>9. PICK c \in CommitAnyway(s, p) :
               /\ o \in Outcome /\ SameRest(c, o.h) /\ NoNewVideo(c, o.h)
               /\ o.ok => /\ Shows(o.h)
                          /\ \A d \in {"VIDEO", "SNAPSHOT"} :
                               o.h.chan[d] = IF c.hint THEN "stopped" ELSE c.chan[d]
               /\ ~o.ok => "add" \in Failures \/ "start" \in Failures
  BY <1>5
<1>10. r \in Reply /\ r.to = "api"
  BY <1>3, <1>6, <1>7, GoToFacts
<1>11. RecordsOnly(st, h) => RecordsOnly(r.st, r.h)
  BY <1>1, <1>2, <1>4, <1>8, <1>9, ChannelNames
     DEF RecordsOnly, NoNewVideo, OnlyGone, RecStates
<1>12. Shown(r.st, r.h)
  BY <1>8, <1>9 DEF Shown, PreviewStates
<1>13. NoAddStart => Alone(r.st, r.h)
  BY <1>8, <1>9 DEF Alone, NoAddStart
<1>14. Steady /\ Pics(st, h) => Pics(r.st, r.h)
  <2> HAVE Steady /\ Pics(st, h)
  <2>1. o.ok /\ r.st = st /\ r.h = o.h
    BY <1>8, <1>9 DEF Steady
  <2>2. r.h.pp = h.pp /\ r.h.hint = r.h.hintNew /\ r.h.hint = c.hint
    BY <1>1, <1>2, <1>4, <1>9, <2>1 DEF SameRest, Steady
  <2>3. \A d \in {"VIDEO", "SNAPSHOT"} :
          r.h.chan[d] = IF c.hint THEN "stopped" ELSE s.chan[d]
    BY <1>4, <1>9, <2>1
  <2>4. s.chan["VIDEO"] = "none" <=> s.chan["SNAPSHOT"] = "none"
    BY <1>1, <1>2, ChannelNames DEF Pics, PreviewSet
  <2>5. r.h.chan["VIDEO"] = "none" <=> r.h.chan["SNAPSHOT"] = "none"
    BY <2>3, <2>4
  <2> QED BY <2>1, <2>2, <2>3, <2>5 DEF Pics, RecStates, PicStates
<1> QED BY <1>8, <1>10, <1>11, <1>12, <1>13, <1>14 DEF Kept

\* The state is a state.
LEMMA StateNames ==
  /\ \A s \in {"PREVIEW_STOPPED", "PREVIEW_READY", "PREVIEWING", "PREPARE_SNAPSHOT",
               "PIC_TAKING", "RECORDING", "VIDEO_PIC_TAKING", "PREVIEW_PIC_TAKING"} : s \in States
  /\ States = {"PREVIEW_STOPPED", "PREVIEW_READY", "PREVIEWING", "PREPARE_SNAPSHOT",
               "PIC_TAKING", "RECORDING", "VIDEO_PIC_TAKING", "PREVIEW_PIC_TAKING"}
BY DEF States, PicStates, RecStates

\* The window comes or goes.
LEMMA WindowFacts ==
  ASSUME NEW h \in Hal, NEW w \in BOOLEAN
  PROVE  /\ [h EXCEPT !.window = w] \in Hal
         /\ [h EXCEPT !.window = w].chan = h.chan /\ [h EXCEPT !.window = w].pp = h.pp
         /\ [h EXCEPT !.window = w].zsl = h.zsl
         /\ [h EXCEPT !.window = w].hint = h.hint /\ [h EXCEPT !.window = w].hintNew = h.hintNew
BY DEF Hal

\* Stopped.
LEMMA StoppedKept ==
  ASSUME NEW h \in Hal, NEW e, IsCmd(e), NEW r \in procEvtPreviewStoppedState(e, h)
  PROVE  Kept("PREVIEW_STOPPED", h, e, r)
<1> DEFINE st == "PREVIEW_STOPPED"
           w  == [h EXCEPT !.window = e.arg]
<1>1. st \in States /\ "PREVIEW_READY" \in States /\ "PREVIEWING" \in States
  BY StateNames
<1>2. CASE e.evt = "SET_PREVIEW_WINDOW"
  <2>1. r \in Done(w, st)
    BY <1>2 DEF procEvtPreviewStoppedState
  <2>2. w \in Hal /\ w.chan = h.chan /\ w.pp = h.pp /\ w.hint = h.hint /\ w.hintNew = h.hintNew
    BY <1>2, WindowFacts DEF IsCmd
  <2> HIDE DEF w
  <2>3. r \in Reply /\ r.st = st /\ r.h = w /\ r.to # "notifier"
    BY <1>1, <2>1, <2>2, TellFacts
  <2> QED BY <2>2, <2>3 DEF Kept, RecordsOnly, Shown, Shows, Alone, Pics
<1>3. CASE e.evt = "SET_PARAMS"
  <2> DEFINE u == updateParameters(h, e.arg)
  <2>1. e.arg \in Changes
    BY <1>3 DEF IsCmd
  <2>2. \/ e.arg.other = "bad" /\ r \in Invalid(u, st)
        \/ r \in Answer(commitParameters(u, e.arg), st)
    BY <1>3 DEF procEvtPreviewStoppedState, SetParams
  <2> QED BY <1>1, <1>3, <2>1, <2>2, RefuseKept, CommitKept
<1>4. CASE e.evt = "START_PREVIEW" /\ ~h.window
  <2>1. r \in GoTo(preparePreview(h), "PREVIEW_READY", st)
    BY <1>4 DEF procEvtPreviewStoppedState
  <2>2. \A o \in preparePreview(h) :
          /\ o \in Outcome /\ SameRest(h, o.h)
          /\ o.ok => \A c \in Channels :
               o.h.chan[c] = IF c \in PreviewSet(h) THEN "stopped" ELSE h.chan[c]
          /\ ~o.ok => "add" \in Failures /\ OnlyGone(h, o.h)
    BY PrepareFacts
  <2>3. preparePreview(h) \in SUBSET Outcome
    BY <2>2
  <2>4. PICK o \in preparePreview(h) : r.h = o.h /\ r.st = (IF o.ok THEN "PREVIEW_READY" ELSE st)
    BY <1>1, <2>1, <2>3, GoToFacts
  <2>5. r \in Reply /\ r.to = "api"
    BY <1>1, <2>1, <2>3, GoToFacts
  <2>6. NoNewVideo(h, o.h)
    BY <2>2, ChannelNames DEF NoNewVideo, OnlyGone
  <2>7. Steady /\ Pics(st, h) => Pics(r.st, r.h)
    <3> HAVE Steady /\ Pics(st, h)
    <3>1. o.ok /\ r.st = "PREVIEW_READY" /\ r.h = o.h
      BY <2>2, <2>4 DEF Steady
    <3>2. r.h.pp = h.pp /\ r.h.hint = h.hint /\ r.h.hintNew = h.hintNew
      BY <2>2, <3>1 DEF SameRest
    <3>3. \A d \in {"VIDEO", "SNAPSHOT"} : r.h.chan[d] = IF h.hint THEN "stopped" ELSE h.chan[d]
      BY <2>2, <3>1, ChannelNames DEF PreviewSet
    <3> QED BY <3>1, <3>2, <3>3 DEF Pics, RecStates, PicStates
  <2> QED BY <2>4, <2>5, <2>6, <2>7
          DEF Kept, RecordsOnly, NoNewVideo, Shown, Alone, RecStates, PreviewStates
<1>5. CASE e.evt = "START_NODISPLAY_PREVIEW" \/ (e.evt = "START_PREVIEW" /\ h.window)
  <2>1. r \in GoTo(PrepareAndStart(h), "PREVIEWING", st)
    BY <1>5 DEF procEvtPreviewStoppedState
  <2>2. \A o \in PrepareAndStart(h) :
          /\ o \in Outcome /\ SameRest(h, o.h) /\ NoNewVideo(h, o.h)
          /\ o.ok => /\ Shows(o.h)
                     /\ \A c \in {"VIDEO", "SNAPSHOT"} :
                          o.h.chan[c] = IF h.hint THEN "stopped" ELSE h.chan[c]
          /\ ~o.ok => "add" \in Failures \/ "start" \in Failures
    BY PrepareAndStartFacts
  <2>3. PrepareAndStart(h) \in SUBSET Outcome
    BY <2>2
  <2>4. PICK o \in PrepareAndStart(h) : r.h = o.h /\ r.st = (IF o.ok THEN "PREVIEWING" ELSE st)
    BY <1>1, <2>1, <2>3, GoToFacts
  <2>5. r \in Reply /\ r.to = "api"
    BY <1>1, <2>1, <2>3, GoToFacts
  <2>7. Steady /\ Pics(st, h) => Pics(r.st, r.h)
    <3> HAVE Steady /\ Pics(st, h)
    <3>1. o.ok /\ r.st = "PREVIEWING" /\ r.h = o.h
      BY <2>2, <2>4 DEF Steady
    <3>2. r.h.pp = h.pp /\ r.h.hint = h.hint /\ r.h.hintNew = h.hintNew
      BY <2>2, <3>1 DEF SameRest
    <3>3. \A d \in {"VIDEO", "SNAPSHOT"} : r.h.chan[d] = IF h.hint THEN "stopped" ELSE h.chan[d]
      BY <2>2, <3>1
    <3> QED BY <3>1, <3>2, <3>3 DEF Pics, RecStates, PicStates
  <2> QED BY <2>2, <2>4, <2>5, <2>7
          DEF Kept, RecordsOnly, NoNewVideo, Shown, Alone, RecStates, PreviewStates
<1>6. CASE e.evt = "RELEASE"
  <2> DEFINE d == delChannels(h, Channels)
  <2>1. r \in Done(d, st)
    BY <1>6 DEF procEvtPreviewStoppedState
  <2>2. d \in Hal /\ \A c \in Channels : d.chan[c] = "none"
    BY DelFacts
  <2> HIDE DEF d
  <2>3. r \in Reply /\ r.st = st /\ r.h = d /\ r.to # "notifier"
    BY <1>1, <2>1, <2>2, TellFacts
  <2> QED BY <1>6, <2>2, <2>3, ChannelNames
          DEF Kept, RecordsOnly, Shown, PreviewStates, Alone, IsCalm
<1>7. CASE e.evt \notin {"SET_PREVIEW_WINDOW", "SET_PARAMS", "START_PREVIEW",
                         "START_NODISPLAY_PREVIEW", "RELEASE"}
  <2>1. r \in Done(h, st) \cup Invalid(h, st) \cup Silent(h, st)
    BY <1>7 DEF procEvtPreviewStoppedState
  <2> QED BY <1>1, <2>1, QuietKept
<1>8. h.window \in BOOLEAN
  BY HalFields
<1> QED BY <1>2, <1>3, <1>4, <1>5, <1>6, <1>7, <1>8

\* Taking the preview down keeps the invariants of the post-processor and the recording.
LEMMA UnprepareKept ==
  ASSUME NEW h \in Hal, NEW st \in States
  PROVE  /\ RecordsOnly(st, h) => RecordsOnly(st, unpreparePreview(h))
         /\ Pics(st, h) /\ st \notin RecStates /\ ~h.pp =>
              Pics("PREVIEW_STOPPED", unpreparePreview(h))
<1> DEFINE d == unpreparePreview(h)
<1>1. /\ d \in Hal /\ SameRest(h, d) /\ OnlyGone(h, d)
      /\ \A c \in Channels : d.chan[c] = IF c \in PreviewSet(h) THEN "none" ELSE h.chan[c]
  BY UnprepareFacts
<1> HIDE DEF d
<1>2. RecordsOnly(st, h) => RecordsOnly(st, d)
  BY <1>1, ChannelNames DEF RecordsOnly, OnlyGone
<1>3. Pics(st, h) /\ st \notin RecStates /\ ~h.pp => Pics("PREVIEW_STOPPED", d)
  <2> HAVE Pics(st, h) /\ st \notin RecStates /\ ~h.pp
  <2>1. \A c \in {"VIDEO", "SNAPSHOT"} : d.chan[c] = IF h.hint THEN "none" ELSE h.chan[c]
    BY <1>1, ChannelNames DEF PreviewSet
  <2>2. d.hint = h.hint /\ d.hintNew = h.hintNew /\ d.pp = h.pp
    BY <1>1 DEF SameRest
  <2> QED BY <2>1, <2>2 DEF Pics, RecStates, PreviewStates
<1> QED BY <1>2, <1>3 DEF d

\* The preview that is ready is prepared again with the changed parameters.
LEMMA ReadyRestartKept ==
  ASSUME NEW h \in Hal, NEW e, e.arg \in Changes,
         NEW r \in GoTo(UNION {preparePreview(c) : c \in
                          CommitAnyway(unpreparePreview(updateParameters(h, e.arg)), e.arg)},
                        "PREVIEW_READY", "PREVIEW_STOPPED")
  PROVE  Kept("PREVIEW_READY", h, e, r)
<1> DEFINE p == e.arg
           u == updateParameters(h, p)
           s == unpreparePreview(u)
           S == UNION {preparePreview(c) : c \in CommitAnyway(s, p)}
<1>1. u \in Hal /\ u.chan = h.chan /\ u.pp = h.pp
  BY UpdateFacts
<1> HIDE DEF u
<1>2. /\ s \in Hal /\ SameRest(u, s) /\ OnlyGone(u, s)
      /\ \A c \in Channels : s.chan[c] = IF c \in PreviewSet(u) THEN "none" ELSE u.chan[c]
  BY <1>1, UnprepareFacts
<1>3. r \in GoTo(S, "PREVIEW_READY", "PREVIEW_STOPPED")
  BY DEF u
<1> HIDE DEF s
<1>4. \A c \in CommitAnyway(s, p) :
        /\ c \in Hal /\ c.chan = s.chan /\ c.pp = s.pp /\ c.hintNew = s.hintNew
        /\ "params" \in Failures \/ c.hint = s.hintNew
  BY <1>2, CommitAnywayFacts
<1>5. ASSUME NEW o \in S
      PROVE  \E c \in CommitAnyway(s, p) :
               /\ o \in Outcome /\ SameRest(c, o.h)
               /\ o.ok => \A d \in Channels :
                    o.h.chan[d] = IF d \in PreviewSet(c) THEN "stopped" ELSE c.chan[d]
               /\ ~o.ok => "add" \in Failures /\ OnlyGone(c, o.h)
  <2>1. PICK c \in CommitAnyway(s, p) : o \in preparePreview(c)
    OBVIOUS
  <2> QED BY <1>4, <2>1, PrepareFacts
<1>6. S \in SUBSET Outcome
  BY <1>5
<1> HIDE DEF S
<1>7. PICK o \in S : r.h = o.h /\ r.st = (IF o.ok THEN "PREVIEW_READY" ELSE "PREVIEW_STOPPED")
  BY <1>3, <1>6, StateNames, GoToFacts
<1>8. r \in Reply /\ r.to = "api"
  BY <1>3, <1>6, StateNames, GoToFacts
<1>9. PICK c \in CommitAnyway(s, p) :
               /\ o \in Outcome /\ SameRest(c, o.h)
               /\ o.ok => \A d \in Channels :
                    o.h.chan[d] = IF d \in PreviewSet(c) THEN "stopped" ELSE c.chan[d]
               /\ ~o.ok => "add" \in Failures /\ OnlyGone(c, o.h)
  BY <1>5
<1>10. NoNewVideo(h, o.h)
  BY <1>1, <1>2, <1>4, <1>9, ChannelNames DEF NoNewVideo, OnlyGone
<1>11. Steady /\ Pics("PREVIEW_READY", h) => Pics(r.st, r.h)
  <2> HAVE Steady /\ Pics("PREVIEW_READY", h)
  <2>1. o.ok /\ r.st = "PREVIEW_READY" /\ r.h = o.h
    BY <1>7, <1>9 DEF Steady
  <2>2. r.h.pp = h.pp /\ r.h.hint = r.h.hintNew /\ r.h.hint = c.hint
    BY <1>1, <1>2, <1>4, <1>9, <2>1 DEF SameRest, Steady
  <2>3. \A d \in {"VIDEO", "SNAPSHOT"} :
          r.h.chan[d] = IF c.hint THEN "stopped" ELSE s.chan[d]
    BY <1>4, <1>9, <2>1, ChannelNames DEF PreviewSet
  <2>4. s.chan["VIDEO"] = "none" <=> s.chan["SNAPSHOT"] = "none"
    BY <1>1, <1>2, ChannelNames DEF Pics, PreviewSet
  <2>5. r.h.chan["VIDEO"] = "none" <=> r.h.chan["SNAPSHOT"] = "none"
    BY <2>3, <2>4
  <2> QED BY <2>1, <2>2, <2>3, <2>5 DEF Pics, RecStates, PicStates
<1> QED BY <1>7, <1>8, <1>10, <1>11
        DEF Kept, RecordsOnly, NoNewVideo, Shown, Alone, RecStates, PreviewStates

\* Ready to show a preview, once there is a window.
LEMMA ReadyKept ==
  ASSUME NEW h \in Hal, NEW e, IsCmd(e), NEW r \in procEvtPreviewReadyState(e, h)
  PROVE  Kept("PREVIEW_READY", h, e, r)
<1> DEFINE st == "PREVIEW_READY"
           w  == [h EXCEPT !.window = e.arg]
<1>1. st \in States /\ "PREVIEW_STOPPED" \in States /\ "PREVIEWING" \in States
  BY StateNames
<1>2. CASE e.evt = "SET_PREVIEW_WINDOW"
  <2>1. /\ w \in Hal /\ w.chan = h.chan /\ w.pp = h.pp
        /\ w.hint = h.hint /\ w.hintNew = h.hintNew
    BY <1>2, WindowFacts DEF IsCmd
  <2>2. \/ r \in Done(w, st)
        \/ r \in GoTo(OnFailure(startPreview(w), unpreparePreview), "PREVIEWING", "PREVIEW_STOPPED")
    BY <1>2 DEF procEvtPreviewReadyState, IsCmd
  <2> HIDE DEF w
  <2>3. CASE r \in Done(w, st)
    <3>1. r \in Reply /\ r.st = st /\ r.h = w /\ r.to # "notifier"
      BY <1>1, <2>1, <2>3, TellFacts
    <3> QED BY <2>1, <3>1 DEF Kept, RecordsOnly, Shown, Shows, Alone, Pics
  <2>4. CASE r \in GoTo(OnFailure(startPreview(w), unpreparePreview), "PREVIEWING", "PREVIEW_STOPPED")
    <3> DEFINE S == OnFailure(startPreview(w), unpreparePreview)
    <3>1. ASSUME NEW o \in S
          PROVE  \E s \in startPreview(w) :
                   o = IF s.ok THEN s ELSE Out(unpreparePreview(s.h), FALSE)
      BY DEF OnFailure
    <3>2. \A s \in startPreview(w) :
            /\ s \in Outcome /\ SameRest(w, s.h)
            /\ \A c \in {"VIDEO", "SNAPSHOT", "CAPTURE"} : s.h.chan[c] = w.chan[c]
            /\ s.ok => Shows(s.h)
            /\ ~s.ok => s.h = w
      BY <2>1, StartPreviewFacts
    <3>3. /\ unpreparePreview(w) \in Hal
          /\ RecordsOnly("PREVIEW_STOPPED", w) =>
               RecordsOnly("PREVIEW_STOPPED", unpreparePreview(w))
          /\ Pics(st, w) /\ st \notin RecStates /\ ~w.pp =>
               Pics("PREVIEW_STOPPED", unpreparePreview(w))
      BY <1>1, <2>1, UnprepareFacts, UnprepareKept
    <3>4. ASSUME NEW o \in S
          PROVE  \/ o \in startPreview(w) /\ o.ok
                 \/ o = Out(unpreparePreview(w), FALSE)
      BY <3>1, <3>2
    <3>5. S \in SUBSET Outcome
      <4> SUFFICES ASSUME NEW o \in S PROVE o \in Outcome
        OBVIOUS
      <4>1. Out(unpreparePreview(w), FALSE) \in Outcome
        BY <3>3, OutTyped
      <4> QED BY <3>2, <3>4, <4>1
    <3>6. PICK o \in S : r.h = o.h /\ r.st = (IF o.ok THEN "PREVIEWING" ELSE "PREVIEW_STOPPED")
      <4> HIDE DEF S
      <4> QED BY <1>1, <2>4, <3>5, GoToFacts DEF S
    <3>7. r \in Reply /\ r.to = "api"
      <4> HIDE DEF S
      <4> QED BY <1>1, <2>4, <3>5, GoToFacts DEF S
    <3>8. CASE o \in startPreview(w) /\ o.ok
      <4>1. r.st = "PREVIEWING" /\ r.h = o.h
        BY <3>6, <3>8
      <4>2. /\ SameRest(w, o.h) /\ Shows(o.h)
            /\ \A c \in {"VIDEO", "SNAPSHOT", "CAPTURE"} : o.h.chan[c] = w.chan[c]
        BY <3>2, <3>8
      <4>3. Pics(st, h) => Pics(r.st, r.h)
        BY <2>1, <4>1, <4>2 DEF Pics, SameRest, RecStates, PreviewStates, PicStates
      <4> QED BY <2>1, <3>7, <4>1, <4>2, <4>3
              DEF Kept, RecordsOnly, Shown, Alone, RecStates
    <3>9. CASE o = Out(unpreparePreview(w), FALSE)
      <4>1. r.st = "PREVIEW_STOPPED" /\ r.h = unpreparePreview(w)
        BY <3>6, <3>9, OutFacts
      <4>2. Pics(st, h) => Pics(st, w) /\ st \notin RecStates /\ ~w.pp
        BY <2>1 DEF Pics, RecStates, PicStates
      <4>3. RecordsOnly(st, h) => RecordsOnly("PREVIEW_STOPPED", w)
        BY <2>1 DEF RecordsOnly, RecStates
      <4> QED BY <3>3, <3>7, <4>1, <4>2, <4>3 DEF Kept, Shown, Alone, PreviewStates
    <3> QED BY <3>4, <3>8, <3>9
  <2> QED BY <2>2, <2>3, <2>4
<1>3. CASE e.evt = "SET_PARAMS"
  <2> DEFINE u == updateParameters(h, e.arg)
  <2>1. e.arg \in Changes
    BY <1>3 DEF IsCmd
  <2>2. \/ e.arg.other = "bad" /\ r \in Invalid(u, st)
        \/ r \in GoTo(UNION {preparePreview(c) : c \in CommitAnyway(unpreparePreview(u), e.arg)},
                      "PREVIEW_READY", "PREVIEW_STOPPED")
        \/ ~needRestart(h, e.arg) /\ r \in Answer(commitParameters(u, e.arg), st)
    BY <1>3 DEF procEvtPreviewReadyState, SetParams
  <2> QED BY <1>1, <1>3, <2>1, <2>2, RefuseKept, CommitKept, ReadyRestartKept
<1>4. CASE e.evt = "STOP_PREVIEW"
  <2> DEFINE d == unpreparePreview(h)
  <2>1. r \in Done(d, "PREVIEW_STOPPED")
    BY <1>4 DEF procEvtPreviewReadyState
  <2>2. d \in Hal
    BY UnprepareFacts
  <2>3. RecordsOnly("PREVIEW_STOPPED", h) => RecordsOnly("PREVIEW_STOPPED", d)
    BY <1>1, UnprepareKept
  <2>4. Pics(st, h) /\ st \notin RecStates /\ ~h.pp => Pics("PREVIEW_STOPPED", d)
    BY <1>1, UnprepareKept
  <2> HIDE DEF d
  <2>5. r \in Reply /\ r.st = "PREVIEW_STOPPED" /\ r.h = d /\ r.to # "notifier"
    BY <1>1, <2>1, <2>2, TellFacts
  <2>6. Pics(st, h) => st \notin RecStates /\ ~h.pp
    BY DEF Pics, RecStates, PicStates
  <2>7. RecordsOnly(st, h) => RecordsOnly("PREVIEW_STOPPED", h)
    BY DEF RecordsOnly, RecStates
  <2> QED BY <2>3, <2>4, <2>5, <2>6, <2>7 DEF Kept, Shown, Alone, PreviewStates
<1>5. CASE e.evt \notin {"SET_PREVIEW_WINDOW", "SET_PARAMS", "STOP_PREVIEW"}
  <2>1. r \in Done(h, st) \cup Invalid(h, st) \cup Silent(h, st)
    BY <1>5 DEF procEvtPreviewReadyState
  <2> QED BY <1>1, <2>1, QuietKept
<1> QED BY <1>2, <1>3, <1>4, <1>5

\* Every start of a recording in the preview.
LEMMA RecordKept ==
  ASSUME NEW h \in Hal, NEW e, NEW r \in GoTo(startRecording(h), "RECORDING", "PREVIEWING")
  PROVE  Kept("PREVIEWING", h, e, r)
<1> DEFINE st == "PREVIEWING"
<1>1. \A o \in startRecording(h) :
         /\ o \in Outcome /\ o.h.pp = h.pp
         /\ ~o.ok => NoNewVideo(h, o.h)
         /\ h.hint => /\ SameRest(h, o.h)
                      /\ \A c \in Channels \ {"VIDEO"} : o.h.chan[c] = h.chan[c]
                      /\ o.h.chan["VIDEO"] = "none" <=> h.chan["VIDEO"] = "none"
                      /\ o.ok => o.h.chan["VIDEO"] = "running"
         /\ ~h.hint /\ Steady =>
              /\ o.ok /\ o.h.hint /\ Shows(o.h)
              /\ o.h.chan["VIDEO"] = "running" /\ o.h.chan["SNAPSHOT"] = "stopped"
  BY RecordFacts
<1>2. startRecording(h) \in SUBSET Outcome
  BY <1>1
<1>3. PICK o \in startRecording(h) : r.h = o.h /\ r.st = (IF o.ok THEN "RECORDING" ELSE st)
  BY <1>2, StateNames, GoToFacts
<1>4. r \in Reply /\ r.to = "api"
  BY <1>2, StateNames, GoToFacts
<1>5. RecordsOnly(st, h) => RecordsOnly(r.st, r.h)
  BY <1>1, <1>3 DEF RecordsOnly, NoNewVideo, RecStates
<1>6. h.hint \in BOOLEAN
  BY HalFields
<1>7. Steady /\ Shown(st, h) => Shown(r.st, r.h)
  <2> HAVE Steady /\ Shown(st, h)
  <2>1. Shows(h)
    BY DEF Shown, PreviewStates, States, PicStates, RecStates
  <2>2. CASE h.hint
    <3>1. o.h.chan["ZSL"] = h.chan["ZSL"] /\ o.h.chan["PREVIEW"] = h.chan["PREVIEW"]
      BY <1>1, <2>2, ChannelNames
    <3> QED BY <1>3, <2>1, <3>1 DEF Shown, Shows
  <2>3. CASE ~h.hint
    BY <1>1, <1>3, <2>3 DEF Shown
  <2> QED BY <2>2, <2>3
<1>8. Steady /\ Pics(st, h) => Pics(r.st, r.h)
  <2> HAVE Steady /\ Pics(st, h)
  <2>1. ~h.pp /\ ~r.h.pp
    BY <1>1, <1>3 DEF Pics, PicStates
  <2>2. CASE h.hint
    <3>1. SameRest(h, o.h) /\ o.h.chan["SNAPSHOT"] = h.chan["SNAPSHOT"]
      BY <1>1, <2>2, ChannelNames
    <3>2. st \in PreviewStates
      BY DEF PreviewStates, States, PicStates, RecStates
    <3> QED BY <1>1, <1>3, <2>1, <2>2, <3>1, <3>2 DEF Pics, SameRest, RecStates
  <2>3. CASE ~h.hint
    <3>1. r.h.hint /\ r.h.chan["VIDEO"] = "running" /\ r.h.chan["SNAPSHOT"] = "stopped"
      BY <1>1, <1>3, <2>3
    <3> QED BY <2>1, <3>1 DEF Pics
  <2> QED BY <1>6, <2>2, <2>3
<1> QED BY <1>3, <1>4, <1>5, <1>7, <1>8 DEF Kept, Alone

\* A picture taken in the preview, without the recording hint.
LEMMA PictureKept ==
  ASSUME NEW h \in Hal, NEW e, ~h.hint,
         NEW r \in GoTo(takePicture(h), IF h.zsl THEN "PREVIEW_PIC_TAKING" ELSE "PIC_TAKING",
                        "PREVIEW_STOPPED")
  PROVE  Kept("PREVIEWING", h, e, r)
<1> DEFINE st == "PREVIEWING"
           ta == IF h.zsl THEN "PREVIEW_PIC_TAKING" ELSE "PIC_TAKING"
<1>1. \A o \in takePicture(h) :
         /\ o \in Outcome /\ SameFlags(h, o.h) /\ NoNewVideo(h, o.h)
         /\ h.zsl => o.h.chan = h.chan
         /\ o.ok /\ ~h.zsl => o.h.chan["PREVIEW"] = "none"
         /\ ~o.ok /\ ~h.pp => ~o.h.pp
         /\ \/ "add" \in Failures
            \/ \A c \in {"VIDEO", "SNAPSHOT"} : o.h.chan[c] = h.chan[c]
  BY TakeFacts
<1>2. takePicture(h) \in SUBSET Outcome
  BY <1>1
<1>3. ta \in States /\ "PREVIEW_STOPPED" \in States
  BY StateNames
<1>4. PICK o \in takePicture(h) : r.h = o.h /\ r.st = (IF o.ok THEN ta ELSE "PREVIEW_STOPPED")
  BY <1>2, <1>3, GoToFacts
<1>5. r \in Reply /\ r.to = "api"
  BY <1>2, <1>3, GoToFacts
<1>6. h.zsl \in BOOLEAN
  BY HalFields
<1>7. RecordsOnly(st, h) => RecordsOnly(r.st, r.h)
  BY <1>1, <1>4 DEF RecordsOnly, NoNewVideo, RecStates
<1>8. Shown(st, h) => Shown(r.st, r.h)
  <2>1. CASE o.ok /\ h.zsl
    <3>1. r.h.chan = h.chan
      BY <1>1, <1>4, <2>1
    <3>2. st \in PreviewStates
      BY DEF PreviewStates, States, PicStates, RecStates
    <3> QED BY <3>1, <3>2 DEF Shown, Shows
  <2>2. CASE ~(o.ok /\ h.zsl)
    BY <1>4, <2>2 DEF Shown, PreviewStates
  <2> QED BY <2>1, <2>2
<1>9. Alone(r.st, r.h)
  BY <1>1, <1>4 DEF Alone
<1>10. Steady /\ Pics(st, h) => Pics(r.st, r.h)
  <2> HAVE Steady /\ Pics(st, h)
  <2>1. \A c \in {"VIDEO", "SNAPSHOT"} : r.h.chan[c] = h.chan[c]
    BY <1>1, <1>4 DEF Steady
  <2>2. r.h.hint = h.hint /\ r.h.hintNew = h.hintNew
    BY <1>1, <1>4 DEF SameFlags
  <2>3. r.h.pp => r.st \in PicStates
    BY <1>1, <1>4 DEF Pics, PicStates
  <2>4. r.st \notin RecStates
    BY <1>4 DEF RecStates
  <2> QED BY <2>1, <2>2, <2>3, <2>4 DEF Pics
<1> QED BY <1>4, <1>5, <1>7, <1>8, <1>9, <1>10 DEF Kept

\* A live snapshot in the preview: when it fails nobody is told.
LEMMA SnapshotKept ==
  ASSUME NEW h \in Hal, NEW e, h.hint, NEW o \in takeLiveSnapshot(h),
         NEW r \in IF o.ok THEN Done(o.h, "PREVIEW_PIC_TAKING") ELSE Silent(o.h, "PREVIEWING")
  PROVE  Kept("PREVIEWING", h, e, r)
<1> DEFINE st == "PREVIEWING"
<1>1. /\ o \in Outcome /\ SameFlags(h, o.h)
      /\ \A c \in Channels \ {"SNAPSHOT"} : o.h.chan[c] = h.chan[c]
      /\ o.h.chan["SNAPSHOT"] = "none" <=> h.chan["SNAPSHOT"] = "none"
      /\ ~o.ok => \/ o.h.pp = h.pp
                  \/ "start" \in Failures \/ h.chan["SNAPSHOT"] = "none"
  BY LiveSnapshotFacts
<1>2. o.h \in Hal /\ o.ok \in BOOLEAN
  BY <1>1 DEF Outcome
<1>3. /\ r \in Reply /\ r.to # "notifier" /\ r.h = o.h
      /\ r.st = IF o.ok THEN "PREVIEW_PIC_TAKING" ELSE st
  <2>1. CASE o.ok
    BY <1>2, <2>1, StateNames, TellFacts
  <2>2. CASE ~o.ok
    BY <1>2, <2>2, StateNames, TellFacts
  <2> QED BY <1>2, <2>1, <2>2
<1>4. st \in PreviewStates
  BY DEF PreviewStates, States, PicStates, RecStates
<1>5. \A c \in {"ZSL", "PREVIEW", "VIDEO"} : r.h.chan[c] = h.chan[c]
  BY <1>1, <1>3, ChannelNames
<1>6. Steady /\ Pics(st, h) => Pics(r.st, r.h)
  <2> HAVE Steady /\ Pics(st, h)
  <2>1. h.chan["SNAPSHOT"] # "none" /\ ~h.pp
    BY <1>4 DEF Pics, PicStates
  <2>2. ~o.ok => ~r.h.pp
    BY <1>1, <1>3, <2>1 DEF Steady
  <2> QED BY <1>1, <1>3, <1>5, <2>1, <2>2 DEF Pics, SameFlags, PicStates, RecStates
<1> QED BY <1>3, <1>4, <1>5, <1>6 DEF Kept, RecordsOnly, Shown, Shows, Alone, RecStates

\* Previewing.
LEMMA PreviewingKept ==
  ASSUME NEW h \in Hal, NEW e, IsCmd(e), NEW r \in procEvtPreviewingState(e, h)
  PROVE  Kept("PREVIEWING", h, e, r)
<1> DEFINE st == "PREVIEWING"
<1>1. st \in States /\ "PREVIEW_STOPPED" \in States /\ "PREPARE_SNAPSHOT" \in States
  BY StateNames
<1>2. h.hint \in BOOLEAN
  BY HalFields
<1>3. CASE e.evt = "SET_PARAMS"
  <2> DEFINE u == updateParameters(h, e.arg)
  <2>1. e.arg \in Changes
    BY <1>3 DEF IsCmd
  <2>2. \/ e.arg.other = "bad" /\ r \in Invalid(u, st)
        \/ r \in RestartPreview(u, e.arg, st, "PREVIEW_STOPPED")
        \/ ~needRestart(h, e.arg) /\ r \in Answer(commitParameters(u, e.arg), st)
    BY <1>3 DEF procEvtPreviewingState, SetParams
  <2> QED BY <1>1, <1>3, <2>1, <2>2, RefuseKept, CommitKept, RestartKept
<1>4. CASE e.evt = "STOP_PREVIEW"
  <2> DEFINE d == unpreparePreview(h)
  <2>1. r \in Done(d, "PREVIEW_STOPPED")
    BY <1>4 DEF procEvtPreviewingState, stopPreview
  <2>2. d \in Hal
    BY UnprepareFacts
  <2>3. RecordsOnly("PREVIEW_STOPPED", h) => RecordsOnly("PREVIEW_STOPPED", d)
    BY <1>1, UnprepareKept
  <2>4. Pics(st, h) /\ st \notin RecStates /\ ~h.pp => Pics("PREVIEW_STOPPED", d)
    BY <1>1, UnprepareKept
  <2> HIDE DEF d
  <2>5. r \in Reply /\ r.st = "PREVIEW_STOPPED" /\ r.h = d /\ r.to # "notifier"
    BY <1>1, <2>1, <2>2, TellFacts
  <2>6. Pics(st, h) => st \notin RecStates /\ ~h.pp
    BY DEF Pics, RecStates, PicStates
  <2>7. RecordsOnly(st, h) => RecordsOnly("PREVIEW_STOPPED", h)
    BY DEF RecordsOnly, RecStates
  <2> QED BY <2>3, <2>4, <2>5, <2>6, <2>7 DEF Kept, Shown, Alone, PreviewStates
<1>5. CASE e.evt = "START_RECORDING"
  <2>1. r \in GoTo(startRecording(h), "RECORDING", st)
    BY <1>5 DEF procEvtPreviewingState
  <2> QED BY <2>1, RecordKept
<1>6. CASE e.evt = "PREPARE_SNAPSHOT"
  <2>1. r \in Silent(h, "PREPARE_SNAPSHOT") \/ r \in Invalid(h, st)
    BY <1>6 DEF procEvtPreviewingState
  <2>2. CASE r \in Silent(h, "PREPARE_SNAPSHOT")
    <3>1. r \in Reply /\ r.st = "PREPARE_SNAPSHOT" /\ r.h = h /\ r.to # "notifier"
      BY <1>1, <2>2, TellFacts
    <3>2. st \in PreviewStates
      BY DEF PreviewStates, States, PicStates, RecStates
    <3> QED BY <3>1, <3>2 DEF Kept, RecordsOnly, Shown, Alone, Pics, RecStates, PicStates
  <2>3. CASE r \in Invalid(h, st)
    BY <1>1, <2>3, QuietKept
  <2> QED BY <2>1, <2>2, <2>3
<1>7. CASE e.evt = "TAKE_PICTURE" /\ ~h.hint
  <2>1. r \in GoTo(takePicture(h), IF h.zsl THEN "PREVIEW_PIC_TAKING" ELSE "PIC_TAKING",
                   "PREVIEW_STOPPED")
    BY <1>7 DEF procEvtPreviewingState
  <2> QED BY <1>7, <2>1, PictureKept
<1>8. CASE e.evt = "TAKE_PICTURE" /\ h.hint
  <2>1. PICK o \in takeLiveSnapshot(h) :
          r \in IF o.ok THEN Done(o.h, "PREVIEW_PIC_TAKING") ELSE Silent(o.h, st)
    BY <1>8 DEF procEvtPreviewingState
  <2> QED BY <1>8, <2>1, SnapshotKept
<1>9. CASE e.evt \notin {"SET_PARAMS", "STOP_PREVIEW", "START_RECORDING", "PREPARE_SNAPSHOT",
                         "TAKE_PICTURE"}
  <2>1. r \in Done(h, st) \cup Invalid(h, st) \cup Silent(h, st)
    BY <1>9 DEF procEvtPreviewingState
  <2> QED BY <1>1, <2>1, QuietKept
<1> QED BY <1>2, <1>3, <1>4, <1>5, <1>6, <1>7, <1>8, <1>9

\* Preparing a snapshot: only the event of the server ends it.
LEMMA PrepareSnapshotKept ==
  ASSUME NEW h \in Hal, NEW e, NEW r \in procEvtPrepareSnapshotState(e, h)
  PROVE  /\ Kept("PREPARE_SNAPSHOT", h, e, r)
         /\ r.st = "PREPARE_SNAPSHOT" <=> e.evt # "PREP_SNAPSHOT_DONE"
<1> DEFINE st == "PREPARE_SNAPSHOT"
<1>1. CASE e.evt = "PREP_SNAPSHOT_DONE"
  <2>1. r \in Done(h, "PREVIEWING")
    BY <1>1 DEF procEvtPrepareSnapshotState
  <2>2. r \in Reply /\ r.st = "PREVIEWING" /\ r.h = h /\ r.to # "notifier"
    BY <2>1, StateNames, TellFacts
  <2>3. st \in PreviewStates
    BY DEF PreviewStates, States, PicStates, RecStates
  <2> QED BY <1>1, <2>2, <2>3 DEF Kept, RecordsOnly, Shown, Alone, Pics, RecStates, PicStates
<1>2. CASE e.evt # "PREP_SNAPSHOT_DONE"
  <2>1. r \in Done(h, st) \cup Invalid(h, st) \cup Silent(h, st)
    BY <1>2 DEF procEvtPrepareSnapshotState
  <2> QED BY <1>2, <2>1, StateNames, QuietKept, TellFacts
<1> QED BY <1>1, <1>2

\* Taking a picture without a preview.
LEMMA PicTakingKept ==
  ASSUME NEW h \in Hal, NEW e, IsCmd(e), NEW r \in procEvtPicTakingState(e, h)
  PROVE  Kept("PIC_TAKING", h, e, r)
<1> DEFINE st == "PIC_TAKING"
<1>1. st \in States /\ "PREVIEW_STOPPED" \in States
  BY StateNames
<1>2. CASE e.evt = "SET_PARAMS"
  <2> DEFINE u == updateParameters(h, e.arg)
  <2>1. e.arg \in Changes
    BY <1>2 DEF IsCmd
  <2>2. \/ e.arg.other = "bad" /\ r \in Invalid(u, st)
        \/ r \in Answer(commitParameters(u, e.arg), st)
    BY <1>2 DEF procEvtPicTakingState, SetParams
  <2> QED BY <1>1, <1>2, <2>1, <2>2, RefuseKept, CommitKept
<1>3. CASE e.evt \in {"STOP_PREVIEW", "CANCEL_PICTURE", "SNAPSHOT_DONE"}
  <2> DEFINE k == cancelPicture(h)
  <2>1. /\ k \in Hal /\ SameFlags(h, k) /\ k.pp = FALSE
        /\ \A c \in Channels \ {"CAPTURE"} : k.chan[c] = h.chan[c]
    BY CancelFacts
  <2>2. \/ r \in Done(k, "PREVIEW_STOPPED")
        \/ e.evt = "SNAPSHOT_DONE" /\ r \in EvtDone(k, "PREVIEW_STOPPED")
    BY <1>3 DEF procEvtPicTakingState
  <2> HIDE DEF k
  <2>3. /\ r \in Reply /\ r.st = "PREVIEW_STOPPED" /\ r.h = k
        /\ r.to = "notifier" => e.evt = "SNAPSHOT_DONE"
    BY <1>1, <2>1, <2>2, TellFacts, EvtDoneFacts
  <2>4. \A c \in {"VIDEO", "SNAPSHOT"} : k.chan[c] = h.chan[c]
    BY <2>1, ChannelNames
  <2> QED BY <2>1, <2>3, <2>4
          DEF Kept, RecordsOnly, Shown, Alone, Pics, SameFlags, RecStates, PreviewStates
<1>4. CASE e.evt \notin {"SET_PARAMS", "STOP_PREVIEW", "CANCEL_PICTURE", "SNAPSHOT_DONE"}
  <2>1. r \in Done(h, st) \cup Invalid(h, st) \cup Silent(h, st)
    BY <1>4 DEF procEvtPicTakingState
  <2> QED BY <1>1, <2>1, QuietKept
<1> QED BY <1>2, <1>3, <1>4

\* The video channel is stopped, from a recording or, with START_RECORDING, from a
\* picture taken in the preview.
LEMMA VideoStopKept ==
  ASSUME NEW h \in Hal, NEW e, NEW st, NEW a, NEW b,
         \/ st = "RECORDING" /\ a = "PREVIEWING" /\ b = "PREVIEWING"
         \/ st = "VIDEO_PIC_TAKING" /\ a = "PREVIEW_PIC_TAKING" /\ b = "PREVIEW_PIC_TAKING"
         \/ st = "PREVIEW_PIC_TAKING" /\ a = "VIDEO_PIC_TAKING" /\ b = "PREVIEW_PIC_TAKING",
         NEW r \in GoTo({stopRecording(h)}, a, b)
  PROVE  Kept(st, h, e, r)
<1> DEFINE o == stopChannel(h, "VIDEO")
<1>1. "VIDEO" \in Channels /\ a \in States /\ b \in States
  BY StateNames, ChannelNames
<1>2. /\ o \in Outcome /\ SameRest(h, o.h)
      /\ \A c \in Channels \ {"VIDEO"} : o.h.chan[c] = h.chan[c]
      /\ o.h.chan["VIDEO"] = IF h.chan["VIDEO"] = "none" THEN "none" ELSE "stopped"
      /\ o.ok = (h.chan["VIDEO"] # "none")
  BY <1>1, StopFacts
<1>3. stopRecording(h) = o
  BY DEF stopRecording
<1> HIDE DEF o
<1>4. r \in Reply /\ r.to = "api" /\ r.h = o.h /\ r.st = (IF o.ok THEN a ELSE b)
  BY <1>1, <1>2, <1>3, GoToFacts
<1>5. \A c \in {"ZSL", "PREVIEW", "SNAPSHOT"} : r.h.chan[c] = h.chan[c]
  BY <1>2, <1>4, ChannelNames
<1>6. st \in PreviewStates /\ r.st # "PIC_TAKING" /\ r.st # "PREPARE_SNAPSHOT"
  BY <1>4 DEF PreviewStates, States, PicStates, RecStates
<1>7. Pics(st, h) => Pics(r.st, r.h)
  BY <1>2, <1>4, <1>5, <1>6 DEF Pics, SameRest, RecStates, PicStates
<1> QED BY <1>2, <1>4, <1>5, <1>6, <1>7 DEF Kept, RecordsOnly, Shown, Shows, Alone

\* Recording.
LEMMA RecordingKept ==
  ASSUME NEW h \in Hal, NEW e, IsCmd(e), NEW r \in procEvtRecordingState(e, h)
  PROVE  Kept("RECORDING", h, e, r)
<1> DEFINE st == "RECORDING"
<1>1. st \in States /\ st \in RecStates /\ "VIDEO_PIC_TAKING" \in States
  BY StateNames DEF RecStates
<1>2. CASE e.evt = "SET_PARAMS"
  <2> DEFINE u == updateParameters(h, e.arg)
  <2>1. e.arg \in Changes
    BY <1>2 DEF IsCmd
  <2>2. \/ r \in Invalid(u, st)
        \/ ~needRestart(h, e.arg) /\ r \in Answer(commitParameters(u, e.arg), st)
    BY <1>2 DEF procEvtRecordingState, SetParams
  <2> QED BY <1>1, <1>2, <2>1, <2>2, RefuseKept, CommitKept
<1>3. CASE e.evt = "TAKE_PICTURE"
  <2>1. r \in GoTo(takeLiveSnapshot(h), "VIDEO_PIC_TAKING", st)
    BY <1>3 DEF procEvtRecordingState
  <2>2. \A o \in takeLiveSnapshot(h) :
         /\ o \in Outcome /\ SameFlags(h, o.h)
         /\ \A c \in Channels \ {"SNAPSHOT"} : o.h.chan[c] = h.chan[c]
         /\ o.h.chan["SNAPSHOT"] = "none" <=> h.chan["SNAPSHOT"] = "none"
         /\ ~o.ok => \/ o.h.pp = h.pp
                     \/ "start" \in Failures \/ h.chan["SNAPSHOT"] = "none"
    BY LiveSnapshotFacts
  <2>3. takeLiveSnapshot(h) \in SUBSET Outcome
    BY <2>2
  <2>4. PICK o \in takeLiveSnapshot(h) : r.h = o.h /\ r.st = (IF o.ok THEN "VIDEO_PIC_TAKING" ELSE st)
    BY <1>1, <2>1, <2>3, GoToFacts
  <2>5. r \in Reply /\ r.to = "api"
    BY <1>1, <2>1, <2>3, GoToFacts
  <2>6. \A c \in {"ZSL", "PREVIEW", "VIDEO"} : r.h.chan[c] = h.chan[c]
    BY <2>2, <2>4, ChannelNames
  <2>7. st \in PreviewStates
    BY DEF PreviewStates, States, PicStates, RecStates
  <2>8. Steady /\ Pics(st, h) => Pics(r.st, r.h)
    <3> HAVE Steady /\ Pics(st, h)
    <3>1. h.chan["SNAPSHOT"] # "none" /\ ~h.pp
      BY <1>1 DEF Pics, PicStates
    <3>2. ~o.ok => ~r.h.pp
      BY <2>2, <2>4, <3>1 DEF Steady
    <3> QED BY <1>1, <2>2, <2>4, <2>6, <3>1, <3>2 DEF Pics, SameFlags, PicStates
  <2> QED BY <2>4, <2>5, <2>6, <2>7, <2>8 DEF Kept, RecordsOnly, Shown, Shows, Alone, RecStates
<1>4. CASE e.evt = "STOP_RECORDING"
  <2>1. r \in GoTo({stopRecording(h)}, "PREVIEWING", "PREVIEWING")
    BY <1>4 DEF procEvtRecordingState, Answer
  <2> QED BY <2>1, VideoStopKept
<1>5. CASE e.evt \notin {"SET_PARAMS", "TAKE_PICTURE", "STOP_RECORDING"}
  <2>1. r \in Done(h, st) \cup Invalid(h, st) \cup Silent(h, st)
    BY <1>5 DEF procEvtRecordingState
  <2> QED BY <1>1, <2>1, QuietKept
<1> QED BY <1>2, <1>3, <1>4, <1>5

\* Taking a live snapshot of a recording.
LEMMA VideoPicTakingKept ==
  ASSUME NEW h \in Hal, NEW e, IsCmd(e), NEW r \in procEvtVideoPicTakingState(e, h)
  PROVE  Kept("VIDEO_PIC_TAKING", h, e, r)
<1> DEFINE st == "VIDEO_PIC_TAKING"
<1>1. st \in States /\ st \in RecStates /\ "RECORDING" \in States
  BY StateNames DEF RecStates
<1>2. CASE e.evt = "SET_PARAMS"
  <2> DEFINE u == updateParameters(h, e.arg)
  <2>1. e.arg \in Changes
    BY <1>2 DEF IsCmd
  <2>2. \/ r \in Invalid(u, st)
        \/ ~needRestart(h, e.arg) /\ r \in Answer(commitParameters(u, e.arg), st)
    BY <1>2 DEF procEvtVideoPicTakingState, SetParams
  <2> QED BY <1>1, <1>2, <2>1, <2>2, RefuseKept, CommitKept
<1>3. CASE e.evt = "STOP_RECORDING"
  <2>1. r \in GoTo({stopRecording(h)}, "PREVIEW_PIC_TAKING", "PREVIEW_PIC_TAKING")
    BY <1>3 DEF procEvtVideoPicTakingState, Answer
  <2> QED BY <2>1, VideoStopKept
<1>4. CASE e.evt \in {"CANCEL_PICTURE", "SNAPSHOT_DONE"}
  <2> DEFINE k == cancelLiveSnapshot(h)
  <2>1. /\ k \in Hal /\ SameFlags(h, k) /\ k.pp = FALSE
        /\ \A c \in Channels \ {"SNAPSHOT"} : k.chan[c] = h.chan[c]
        /\ k.chan["SNAPSHOT"] = "none" <=> h.chan["SNAPSHOT"] = "none"
    BY CancelLiveFacts
  <2>2. \/ r \in Done(k, "RECORDING")
        \/ e.evt = "SNAPSHOT_DONE" /\ r \in EvtDone(k, "RECORDING")
    BY <1>4 DEF procEvtVideoPicTakingState
  <2> HIDE DEF k
  <2>3. /\ r \in Reply /\ r.st = "RECORDING" /\ r.h = k
        /\ r.to = "notifier" => e.evt = "SNAPSHOT_DONE"
    BY <1>1, <2>1, <2>2, TellFacts, EvtDoneFacts
  <2>4. \A c \in {"ZSL", "PREVIEW", "VIDEO"} : k.chan[c] = h.chan[c]
    BY <2>1, ChannelNames
  <2>5. st \in PreviewStates
    BY DEF PreviewStates, States, PicStates, RecStates
  <2>6. Pics(st, h) => Pics("RECORDING", k)
    BY <1>1, <2>1, <2>4, <2>5 DEF Pics, SameFlags
  <2> QED BY <2>3, <2>4, <2>5, <2>6 DEF Kept, RecordsOnly, Shown, Shows, Alone, RecStates
<1>5. CASE e.evt \notin {"SET_PARAMS", "STOP_RECORDING", "CANCEL_PICTURE", "SNAPSHOT_DONE"}
  <2>1. r \in Done(h, st) \cup Invalid(h, st) \cup Silent(h, st)
    BY <1>5 DEF procEvtVideoPicTakingState
  <2> QED BY <1>1, <2>1, QuietKept
<1> QED BY <1>2, <1>3, <1>4, <1>5

\* Taking a picture, or a live snapshot, while the preview goes on.
LEMMA PreviewPicTakingKept ==
  ASSUME NEW h \in Hal, NEW e, IsCmd(e), NEW r \in procEvtPreviewPicTakingState(e, h)
  PROVE  Kept("PREVIEW_PIC_TAKING", h, e, r)
<1> DEFINE st == "PREVIEW_PIC_TAKING"
           k  == IF h.zsl THEN cancelPicture(h) ELSE cancelLiveSnapshot(h)
<1>1. st \in States /\ "PREVIEWING" \in States /\ "PREVIEW_STOPPED" \in States
  BY StateNames
<1>2. /\ k \in Hal /\ SameFlags(h, k) /\ k.pp = FALSE
      /\ \A c \in {"ZSL", "PREVIEW", "VIDEO"} : k.chan[c] = h.chan[c]
      /\ k.chan["SNAPSHOT"] = "none" <=> h.chan["SNAPSHOT"] = "none"
  <2>1. CASE h.zsl
    <3>1. k = cancelPicture(h)
      BY <2>1
    <3> HIDE DEF k
    <3> QED BY <3>1, CancelFacts, ChannelNames
  <2>2. CASE ~h.zsl
    <3>1. k = cancelLiveSnapshot(h)
      BY <2>2
    <3> HIDE DEF k
    <3> QED BY <3>1, CancelLiveFacts, ChannelNames
  <2> QED BY <2>1, <2>2
<1>3. st \in PreviewStates /\ st \notin RecStates
  BY DEF PreviewStates, States, PicStates, RecStates
<1>4. CASE e.evt = "SET_PARAMS"
  <2> DEFINE u == updateParameters(h, e.arg)
  <2>1. e.arg \in Changes
    BY <1>4 DEF IsCmd
  <2>2. \/ e.arg.other = "bad" /\ r \in Invalid(u, st)
        \/ r \in RestartPreview(u, e.arg, st, "PIC_TAKING")
        \/ ~needRestart(h, e.arg) /\ r \in Answer(commitParameters(u, e.arg), st)
    BY <1>4 DEF procEvtPreviewPicTakingState, SetParams
  <2> QED BY <1>1, <1>4, <2>1, <2>2, RefuseKept, CommitKept, RestartKept
<1>5. CASE e.evt \in {"CANCEL_PICTURE", "SNAPSHOT_DONE"}
  <2>1. \/ r \in Done(k, "PREVIEWING")
        \/ e.evt = "SNAPSHOT_DONE" /\ r \in EvtDone(k, "PREVIEWING")
    BY <1>5 DEF procEvtPreviewPicTakingState
  <2> HIDE DEF k
  <2>2. /\ r \in Reply /\ r.st = "PREVIEWING" /\ r.h = k
        /\ r.to = "notifier" => e.evt = "SNAPSHOT_DONE"
    BY <1>1, <1>2, <2>1, TellFacts, EvtDoneFacts
  <2>3. Pics(st, h) => Pics("PREVIEWING", k)
    BY <1>2, <1>3 DEF Pics, SameFlags, RecStates
  <2> QED BY <1>2, <1>3, <2>2, <2>3 DEF Kept, RecordsOnly, Shown, Shows, Alone, RecStates
<1>6. CASE e.evt = "STOP_PREVIEW"
  <2> DEFINE c == IF h.zsl THEN "ZSL" ELSE "PREVIEW"
             s == stopChannel(k, c).h
             d == unpreparePreview(s)
  <2>1. r \in Done(d, "PREVIEW_STOPPED")
    BY <1>6 DEF procEvtPreviewPicTakingState
  <2> HIDE DEF k
  <2>2. c \in Channels /\ c # "VIDEO" /\ c # "SNAPSHOT"
    BY ChannelNames
  <2> HIDE DEF c
  <2>3. /\ stopChannel(k, c) \in Outcome /\ SameRest(k, s)
        /\ \A x \in Channels \ {c} : s.chan[x] = k.chan[x]
    BY <1>2, <2>2, StopFacts
  <2>4. /\ s \in Hal /\ s.pp = FALSE /\ SameFlags(h, s)
        /\ s.chan["VIDEO"] = k.chan["VIDEO"] /\ s.chan["SNAPSHOT"] = k.chan["SNAPSHOT"]
    BY <1>2, <2>2, <2>3, ChannelNames DEF Outcome, SameFlags, SameRest
  <2> HIDE DEF s
  <2>5. Pics(st, h) => Pics("PREVIEW_STOPPED", s) /\ ~s.pp
    BY <1>2, <1>3, <2>4 DEF Pics, SameFlags, RecStates, PreviewStates
  <2>6. RecordsOnly(st, h) => RecordsOnly("PREVIEW_STOPPED", s)
    BY <1>2, <1>3, <2>4 DEF RecordsOnly
  <2>7. d \in Hal
    BY <2>4, UnprepareFacts
  <2>8. /\ RecordsOnly("PREVIEW_STOPPED", s) => RecordsOnly("PREVIEW_STOPPED", d)
        /\ Pics("PREVIEW_STOPPED", s) /\ "PREVIEW_STOPPED" \notin RecStates /\ ~s.pp =>
             Pics("PREVIEW_STOPPED", d)
    BY <1>1, <2>4, UnprepareKept
  <2> HIDE DEF d
  <2>9. r \in Reply /\ r.st = "PREVIEW_STOPPED" /\ r.h = d /\ r.to # "notifier"
    BY <1>1, <2>1, <2>7, TellFacts
  <2> QED BY <2>5, <2>6, <2>8, <2>9 DEF Kept, Shown, Alone, PreviewStates, RecStates
<1>7. CASE e.evt = "START_RECORDING"
  <2>1. r \in GoTo({stopRecording(h)}, "VIDEO_PIC_TAKING", st)
    BY <1>7 DEF procEvtPreviewPicTakingState
  <2> QED BY <2>1, VideoStopKept
<1>8. CASE e.evt \notin {"SET_PARAMS", "CANCEL_PICTURE", "SNAPSHOT_DONE", "STOP_PREVIEW",
                         "START_RECORDING"}
  <2>1. r \in Done(h, st) \cup Invalid(h, st) \cup Silent(h, st)
    BY <1>8 DEF procEvtPreviewPicTakingState
  <2> QED BY <1>1, <2>1, QuietKept
<1> QED BY <1>4, <1>5, <1>6, <1>7, <1>8

-----------------------------------------------------------------------------
(* The invariants of the specification.                                    *)

Commands == Requests \cup {[evt |-> "TAKE_PICTURE", arg |-> FALSE]}
Events   == {"PREP_SNAPSHOT_DONE", "JPEG_EVT_NOTIFY", "SNAPSHOT_DONE"}

Has(q, e)  == \E i \in 1..Len(q) : q[i] = e
Once(q, e) == \A i, j \in 1..Len(q) : q[i] = e /\ q[j] = e => i = j
One(b)     == IF b THEN 1 ELSE 0

\* The server prepares one snapshot at a time, and the notifier waits for one answer:
\* of each of their events at most one is on its way.
OneOfEach ==
  /\ Once(evt_queue, "PREP_SNAPSHOT_DONE") /\ Once(evt_queue, "SNAPSHOT_DONE")
  /\ server \/ Has(evt_queue, "PREP_SNAPSHOT_DONE") => m_state = "PREPARE_SNAPSHOT"
  /\ ~(server /\ Has(evt_queue, "PREP_SNAPSHOT_DONE"))
  /\ Has(evt_queue, "SNAPSHOT_DONE") => notifier = "waiting"

\* So the JPEG events, which the bound counts, leave room for two more.
EventsBounded ==
  Len(evt_queue) <= MaxEvents + One(Has(evt_queue, "PREP_SNAPSHOT_DONE"))
                              + One(Has(evt_queue, "SNAPSHOT_DONE"))

Typed ==
  /\ m_state \in States /\ hal \in Hal
  /\ api_queue \in Seq(Commands) /\ evt_queue \in Seq(Events)
  /\ pictures \in 0..MaxEvents /\ notifier \in {"idle", "waiting", "answered"}
  /\ server \in BOOLEAN /\ m_apiResult \in {"none", "ok", "failed"}

TypedInv == Typed /\ OneOfEach /\ EventsBounded

\* A queue and an event appended to it.
LEMMA AppendEvents ==
  ASSUME NEW q \in Seq(Events), NEW a \in Events
  PROVE  /\ Append(q, a) \in Seq(Events) /\ Len(Append(q, a)) = Len(q) + 1
         /\ \A e \in Events : Has(Append(q, a), e) <=> Has(q, e) \/ e = a
         /\ \A e \in Events : Once(q, e) /\ (e = a => ~Has(q, e)) => Once(Append(q, a), e)
<1> DEFINE r == Append(q, a)
<1>1. /\ r \in Seq(Events) /\ Len(r) = Len(q) + 1 /\ Len(q) \in Nat
      /\ \A i \in 1..Len(q) : r[i] = q[i]
      /\ r[Len(q) + 1] = a
  OBVIOUS
<1> HIDE DEF r
<1>2. \A i \in 1..Len(r) : i \in 1..Len(q) \/ i = Len(q) + 1
  BY <1>1
<1>3. Len(q) + 1 \in 1..Len(r) /\ \A i \in 1..Len(q) : i \in 1..Len(r)
  BY <1>1
<1>4. ASSUME NEW e \in Events PROVE Has(r, e) <=> Has(q, e) \/ e = a
  BY <1>1, <1>2, <1>3 DEF Has
<1>5. ASSUME NEW e \in Events, Once(q, e), e = a => ~Has(q, e) PROVE Once(r, e)
  BY <1>1, <1>2, <1>5 DEF Has, Once
<1> QED BY <1>1, <1>4, <1>5 DEF r

\* A queue whose head is taken.
LEMMA TailEvents ==
  ASSUME NEW q \in Seq(Events), q # <<>>
  PROVE  /\ Head(q) \in Events /\ Tail(q) \in Seq(Events) /\ Len(Tail(q)) = Len(q) - 1
         /\ \A e \in Events : Has(q, e) <=> Has(Tail(q), e) \/ e = Head(q)
         /\ \A e \in Events : Once(q, e) => Once(Tail(q), e)
         /\ Once(q, Head(q)) => ~Has(Tail(q), Head(q))
<1> DEFINE r == Tail(q)
           a == Head(q)
           n == Len(q)
<1>1. /\ n \in Nat /\ n >= 1 /\ a = q[1] /\ a \in Events
      /\ r \in Seq(Events) /\ Len(r) = n - 1
      /\ \A i \in 1..(n - 1) : r[i] = q[i + 1]
  OBVIOUS
<1> HIDE DEF r, a
<1>2. \A i \in 1..n : i = 1 \/ (i - 1 \in 1..(n - 1) /\ (i - 1) + 1 = i)
  BY <1>1
<1>3. 1 \in 1..n /\ \A i \in 1..(n - 1) : i + 1 \in 1..n /\ i + 1 # 1
  BY <1>1
<1> HIDE DEF n
<1>4. ASSUME NEW e \in Events PROVE Has(q, e) <=> Has(r, e) \/ e = a
  <2>1. Has(q, e) => Has(r, e) \/ e = a
    <3> SUFFICES ASSUME NEW i \in 1..n, q[i] = e PROVE Has(r, e) \/ e = a
      BY DEF Has, n
    <3> QED BY <1>1, <1>2 DEF Has
  <2>2. Has(r, e) => Has(q, e)
    BY <1>1, <1>3 DEF Has, n
  <2>3. e = a => Has(q, e)
    BY <1>1, <1>3 DEF Has, n
  <2> QED BY <2>1, <2>2, <2>3
<1>5. ASSUME NEW e \in Events, Once(q, e) PROVE Once(r, e)
  <2> SUFFICES ASSUME NEW i \in 1..(n - 1), NEW j \in 1..(n - 1), r[i] = e, r[j] = e PROVE i = j
    BY <1>1 DEF Once
  <2>1. i + 1 = j + 1
    BY <1>1, <1>3, <1>5 DEF Once, n
  <2> QED BY <2>1
<1>6. ASSUME Once(q, a), Has(r, a) PROVE FALSE
  <2>1. PICK i \in 1..(n - 1) : r[i] = a
    BY <1>1, <1>6 DEF Has
  <2>2. i + 1 = 1
    BY <1>1, <1>3, <1>6, <2>1 DEF Once, n
  <2> QED BY <1>3, <2>2
<1> QED BY <1>1, <1>4, <1>5, <1>6 DEF r, a, n

\* The handler of the state keeps what it keeps.
LEMMA MachineKept ==
  ASSUME m_state \in States, hal \in Hal, NEW e, IsCmd(e), NEW r \in stateMachine(e)
  PROVE  /\ Kept(m_state, hal, e, r)
         /\ m_state = "PREPARE_SNAPSHOT" =>
              (r.st = "PREPARE_SNAPSHOT" <=> e.evt # "PREP_SNAPSHOT_DONE")
<1>1. CASE m_state = "PREVIEW_STOPPED"
  <2>1. r \in procEvtPreviewStoppedState(e, hal)
    BY <1>1 DEF stateMachine
  <2> QED BY <1>1, <2>1, StoppedKept
<1>2. CASE m_state = "PREVIEW_READY"
  <2>1. r \in procEvtPreviewReadyState(e, hal)
    BY <1>2 DEF stateMachine
  <2> QED BY <1>2, <2>1, ReadyKept
<1>3. CASE m_state = "PREVIEWING"
  <2>1. r \in procEvtPreviewingState(e, hal)
    BY <1>3 DEF stateMachine
  <2> QED BY <1>3, <2>1, PreviewingKept
<1>4. CASE m_state = "PREPARE_SNAPSHOT"
  <2>1. r \in procEvtPrepareSnapshotState(e, hal)
    BY <1>4 DEF stateMachine
  <2> QED BY <1>4, <2>1, PrepareSnapshotKept
<1>5. CASE m_state = "PIC_TAKING"
  <2>1. r \in procEvtPicTakingState(e, hal)
    BY <1>5 DEF stateMachine
  <2> QED BY <1>5, <2>1, PicTakingKept
<1>6. CASE m_state = "RECORDING"
  <2>1. r \in procEvtRecordingState(e, hal)
    BY <1>6 DEF stateMachine
  <2> QED BY <1>6, <2>1, RecordingKept
<1>7. CASE m_state = "VIDEO_PIC_TAKING"
  <2>1. r \in procEvtVideoPicTakingState(e, hal)
    BY <1>7 DEF stateMachine
  <2> QED BY <1>7, <2>1, VideoPicTakingKept
<1>8. CASE m_state = "PREVIEW_PIC_TAKING"
  <2>1. r \in procEvtPreviewPicTakingState(e, hal)
    BY <1>8 DEF stateMachine
  <2> QED BY <1>8, <2>1, PreviewPicTakingKept
<1> QED BY <1>1, <1>2, <1>3, <1>4, <1>5, <1>6, <1>7, <1>8, StateNames

\* What is in the queue of requests is a call.
LEMMA CommandFacts ==
  ASSUME NEW c \in Commands
  PROVE  c.evt \in Apis /\ IsCmd(c)
<1>1. CASE c \in Requests
  BY <1>1, HalAssumption DEF IsCall, IsCmd
<1>2. CASE c = [evt |-> "TAKE_PICTURE", arg |-> FALSE]
  BY <1>2 DEF Apis, IsCmd
<1> QED BY <1>1, <1>2 DEF Commands

\* The next command is a request, or the event at the head of its queue.
LEMMA NextCmdFacts ==
  ASSUME Typed, HasRequest \/ evt_queue # <<>>
  PROVE  /\ IsCmd(NextCmd)
         /\ HasRequest => NextCmd \in Commands /\ NextCmd.evt \in Apis
         /\ ~HasRequest => NextCmd.evt = Head(evt_queue) /\ NextCmd.evt \in Events
<1>1. CASE HasRequest
  <2>1. NextCmd = Head(api_queue)
    BY <1>1 DEF NextCmd
  <2>2. NextCmd \in Commands
    BY <1>1, <2>1 DEF HasRequest, Typed
  <2> QED BY <1>1, <2>2, CommandFacts
<1>2. CASE ~HasRequest
  <2>1. NextCmd.evt = Head(evt_queue)
    BY <1>2 DEF NextCmd
  <2>2. Head(evt_queue) \in Events
    BY <1>2, TailEvents DEF Typed
  <2> QED BY <1>2, <2>1, <2>2 DEF IsCmd, Events
<1> QED BY <1>1, <1>2

\* Handling a command is a step of the handler.
LEMMA HandleFacts ==
  ASSUME Typed, Handle
  PROVE  \E r : /\ Kept(m_state, hal, NextCmd, r) /\ m_state' = r.st /\ hal' = r.h
                /\ m_state = "PREPARE_SNAPSHOT" =>
                     (r.st = "PREPARE_SNAPSHOT" <=> NextCmd.evt # "PREP_SNAPSHOT_DONE")
                /\ m_apiResult' \in {m_apiResult, "ok", "failed"}
                /\ notifier' = IF r.to = "notifier" /\ notifier = "waiting" THEN "answered"
                               ELSE notifier
                /\ server' = (server \/ (m_state = "PREVIEWING" /\ r.st = "PREPARE_SNAPSHOT"))
<1>1. PICK o \in stateMachine(NextCmd) :
       /\ m_state' = o.st /\ hal' = o.h
       /\ m_apiResult' = IF o.to # "api" THEN m_apiResult ELSE IF o.ok THEN "ok" ELSE "failed"
       /\ notifier' = IF o.to = "notifier" /\ notifier = "waiting" THEN "answered" ELSE notifier
       /\ server' = (server \/ (m_state = "PREVIEWING" /\ o.st = "PREPARE_SNAPSHOT"))
  BY DEF Handle
<1>2. IsCmd(NextCmd)
  BY NextCmdFacts DEF Handle
<1>3. /\ Kept(m_state, hal, NextCmd, o)
      /\ m_state = "PREPARE_SNAPSHOT" =>
           (o.st = "PREPARE_SNAPSHOT" <=> NextCmd.evt # "PREP_SNAPSHOT_DONE")
  BY <1>2, MachineKept DEF Typed
<1>4. m_apiResult' \in {m_apiResult, "ok", "failed"}
  BY <1>1
<1> QED BY <1>1, <1>3, <1>4

\* Handling a command keeps the types and the bounds of the queues.
LEMMA HandleTyped ==
  ASSUME TypedInv, Handle
  PROVE  TypedInv'
<1>1. PICK r :  /\ Kept(m_state, hal, NextCmd, r) /\ m_state' = r.st /\ hal' = r.h
                /\ m_state = "PREPARE_SNAPSHOT" =>
                     (r.st = "PREPARE_SNAPSHOT" <=> NextCmd.evt # "PREP_SNAPSHOT_DONE")
                /\ m_apiResult' \in {m_apiResult, "ok", "failed"}
                /\ notifier' = IF r.to = "notifier" /\ notifier = "waiting" THEN "answered"
                               ELSE notifier
                /\ server' = (server \/ (m_state = "PREVIEWING" /\ r.st = "PREPARE_SNAPSHOT"))
  BY HandleFacts DEF TypedInv
<1>2. /\ r.st \in States /\ r.h \in Hal
      /\ r.to = "notifier" => NextCmd.evt = "SNAPSHOT_DONE"
      /\ r.st = "PREPARE_SNAPSHOT" => m_state \in {"PREVIEWING", "PREPARE_SNAPSHOT"}
  BY <1>1 DEF Kept, Reply
<1>3. /\ HasRequest => NextCmd.evt \in Apis
      /\ ~HasRequest => NextCmd.evt = Head(evt_queue) /\ NextCmd.evt \in Events
  BY NextCmdFacts DEF TypedInv, Handle
<1>4. pictures' \in 0..MaxEvents
  BY HalAssumption DEF TypedInv, Typed, Handle
<1>5. notifier' \in {"idle", "waiting", "answered"} /\ m_apiResult' \in {"none", "ok", "failed"}
  BY <1>1 DEF TypedInv, Typed
<1>6. server' \in BOOLEAN
  BY <1>1
<1>7. m_state' = "PREPARE_SNAPSHOT" => m_state = "PREPARE_SNAPSHOT" \/ server'
  BY <1>1, <1>2
<1>8. CASE HasRequest
  <2>1. api_queue' = Tail(api_queue) /\ evt_queue' = evt_queue
    BY <1>8 DEF Handle
  <2>2. api_queue' \in Seq(Commands)
    BY <1>8, <2>1 DEF HasRequest, TypedInv, Typed
  <2>3. NextCmd.evt # "SNAPSHOT_DONE" /\ NextCmd.evt # "PREP_SNAPSHOT_DONE"
    BY <1>3, <1>8 DEF Apis
  <2>4. notifier' = notifier
    BY <1>1, <1>2, <2>3
  <2>5. m_state = "PREPARE_SNAPSHOT" => m_state' = "PREPARE_SNAPSHOT" /\ server' = server
    BY <1>1, <2>3 DEF TypedInv, Typed
  <2>6. m_state # "PREPARE_SNAPSHOT" =>
          ~server /\ ~Has(evt_queue, "PREP_SNAPSHOT_DONE") /\ (server' => m_state' = "PREPARE_SNAPSHOT")
    BY <1>1 DEF TypedInv, OneOfEach
  <2>7. OneOfEach'
    BY <2>1, <2>4, <2>5, <2>6 DEF TypedInv, OneOfEach
  <2>8. EventsBounded'
    BY <2>1 DEF TypedInv, EventsBounded
  <2> QED BY <1>1, <1>2, <1>4, <1>5, <1>6, <2>1, <2>2, <2>7, <2>8 DEF TypedInv, Typed
<1>9. CASE ~HasRequest
  <2> DEFINE a == Head(evt_queue)
  <2>1. evt_queue # <<>> /\ evt_queue' = Tail(evt_queue) /\ api_queue' = api_queue
    BY <1>9 DEF Handle
  <2>2. evt_queue \in Seq(Events)
    BY DEF TypedInv, Typed
  <2>3. /\ a \in Events /\ Tail(evt_queue) \in Seq(Events)
        /\ Len(Tail(evt_queue)) = Len(evt_queue) - 1
        /\ \A e \in Events : Has(evt_queue, e) <=> Has(Tail(evt_queue), e) \/ e = a
        /\ \A e \in Events : Once(evt_queue, e) => Once(Tail(evt_queue), e)
        /\ Once(evt_queue, a) => ~Has(Tail(evt_queue), a)
    BY <2>1, <2>2, TailEvents
  <2>4. NextCmd.evt = a
    BY <1>3, <1>9
  <2> HIDE DEF a
  <2>5. "PREP_SNAPSHOT_DONE" \in Events /\ "SNAPSHOT_DONE" \in Events
    BY DEF Events
  <2>6. /\ Once(evt_queue, "PREP_SNAPSHOT_DONE") /\ Once(evt_queue, "SNAPSHOT_DONE")
        /\ server \/ Has(evt_queue, "PREP_SNAPSHOT_DONE") => m_state = "PREPARE_SNAPSHOT"
        /\ ~(server /\ Has(evt_queue, "PREP_SNAPSHOT_DONE"))
        /\ Has(evt_queue, "SNAPSHOT_DONE") => notifier = "waiting"
    BY DEF TypedInv, OneOfEach
  <2> DEFINE p == Has(evt_queue, "PREP_SNAPSHOT_DONE")
             d == Has(evt_queue, "SNAPSHOT_DONE")
             pp == Has(Tail(evt_queue), "PREP_SNAPSHOT_DONE")
             dd == Has(Tail(evt_queue), "SNAPSHOT_DONE")
  <2>7. /\ p <=> pp \/ a = "PREP_SNAPSHOT_DONE"
        /\ d <=> dd \/ a = "SNAPSHOT_DONE"
        /\ a = "PREP_SNAPSHOT_DONE" => ~pp
        /\ a = "SNAPSHOT_DONE" => ~dd
    BY <2>3, <2>5, <2>6
  <2> HIDE DEF p, d, pp, dd
  <2>8. OneOfEach'
    <3>1. Once(evt_queue, "PREP_SNAPSHOT_DONE")' /\ Once(evt_queue, "SNAPSHOT_DONE")'
      BY <2>1, <2>3, <2>5, <2>6
    <3>2. Has(evt_queue, "SNAPSHOT_DONE")' => notifier' = "waiting"
      <4>1. dd => notifier' = "waiting"
        BY <1>1, <1>2, <2>4, <2>6, <2>7 DEF d
      <4> QED BY <2>1, <4>1 DEF dd
    <3>3. server' \/ pp => m_state' = "PREPARE_SNAPSHOT"
      <4>1. CASE m_state = "PREPARE_SNAPSHOT"
        <5>1. server' = server
          BY <1>1, <4>1 DEF TypedInv, Typed
        <5>2. server => a # "PREP_SNAPSHOT_DONE"
          BY <2>6, <2>7 DEF p
        <5> QED BY <1>1, <2>4, <2>7, <4>1, <5>1, <5>2
      <4>2. CASE m_state # "PREPARE_SNAPSHOT"
        BY <1>1, <2>6, <2>7, <4>2 DEF p
      <4> QED BY <4>1, <4>2
    <3>4. ~(server' /\ pp)
      <4>1. CASE m_state = "PREPARE_SNAPSHOT"
        <5>1. server' = server
          BY <1>1, <4>1 DEF TypedInv, Typed
        <5> QED BY <2>6, <2>7, <5>1 DEF p
      <4>2. CASE m_state # "PREPARE_SNAPSHOT"
        BY <2>6, <2>7, <4>2 DEF p
      <4> QED BY <4>1, <4>2
    <3> QED BY <2>1, <3>1, <3>2, <3>3, <3>4 DEF OneOfEach, pp
  <2>9. EventsBounded'
    <3> DEFINE n == Len(evt_queue)
               m == Len(Tail(evt_queue))
    <3>1. n \in Nat /\ m \in Nat /\ m = n - 1 /\ MaxEvents \in Nat
      BY <2>2, <2>3, HalAssumption
    <3>2. n <= MaxEvents + One(p) + One(d)
      BY DEF TypedInv, EventsBounded, p, d
    <3> HIDE DEF n, m
    <3>3. m <= MaxEvents + One(pp) + One(dd)
      <4>1. CASE a = "PREP_SNAPSHOT_DONE"
        BY <2>7, <3>1, <3>2, <4>1 DEF One
      <4>2. CASE a = "SNAPSHOT_DONE"
        BY <2>7, <3>1, <3>2, <4>2 DEF One
      <4>3. CASE a # "PREP_SNAPSHOT_DONE" /\ a # "SNAPSHOT_DONE"
        BY <2>7, <3>1, <3>2, <4>3 DEF One
      <4> QED BY <4>1, <4>2, <4>3
    <3> QED BY <2>1, <3>3 DEF EventsBounded, m, pp, dd
  <2> QED BY <1>1, <1>2, <1>4, <1>5, <1>6, <2>1, <2>3, <2>8, <2>9 DEF TypedInv, Typed
<1> QED BY <1>8, <1>9

\* An event that is put into its queue keeps it typed, and the others as they were.
LEMMA SendFacts ==
  ASSUME TypedInv, NEW a \in Events, evt_queue' = Append(evt_queue, a)
  PROVE  /\ evt_queue' \in Seq(Events) /\ Len(evt_queue') = Len(evt_queue) + 1
         /\ Len(evt_queue) \in Nat /\ MaxEvents \in Nat
         /\ \A e \in Events : /\ Has(evt_queue', e) <=> Has(evt_queue, e) \/ e = a
                              /\ Once(evt_queue, e) /\ (e = a => ~Has(evt_queue, e)) =>
                                   Once(evt_queue', e)
<1>1. evt_queue \in Seq(Events)
  BY DEF TypedInv, Typed
<1> QED BY <1>1, AppendEvents, HalAssumption

\* The event of the server is the only one of its kind.
LEMMA PrepareDoneTyped ==
  ASSUME TypedInv, PrepareDone
  PROVE  TypedInv'
<1> DEFINE P == "PREP_SNAPSHOT_DONE"
           D == "SNAPSHOT_DONE"
<1>1. /\ server /\ server' = FALSE /\ evt_queue' = Append(evt_queue, P)
      /\ UNCHANGED <<m_state, hal, api_queue, call, m_apiResult, pictures, notifier>>
  BY DEF PrepareDone, callback
<1>2. P \in Events /\ D \in Events /\ P # D
  BY DEF Events
<1>3. /\ evt_queue' \in Seq(Events) /\ Len(evt_queue') = Len(evt_queue) + 1
      /\ Len(evt_queue) \in Nat /\ MaxEvents \in Nat
      /\ \A e \in Events : /\ Has(evt_queue', e) <=> Has(evt_queue, e) \/ e = P
                           /\ Once(evt_queue, e) /\ (e = P => ~Has(evt_queue, e)) =>
                                Once(evt_queue', e)
  BY <1>1, <1>2, SendFacts
<1>4. ~Has(evt_queue, P) /\ m_state = "PREPARE_SNAPSHOT" /\ Once(evt_queue, P) /\ Once(evt_queue, D)
  BY <1>1 DEF TypedInv, OneOfEach
<1>5. /\ Has(evt_queue', P) /\ (Has(evt_queue', D) <=> Has(evt_queue, D))
      /\ Once(evt_queue', P) /\ Once(evt_queue', D)
  BY <1>2, <1>3, <1>4
<1>6. OneOfEach'
  BY <1>1, <1>4, <1>5 DEF TypedInv, OneOfEach
<1>7. EventsBounded'
  <2>1. Len(evt_queue) <= MaxEvents + One(Has(evt_queue, D))
    <3>1. Len(evt_queue) <= MaxEvents + One(Has(evt_queue, P)) + One(Has(evt_queue, D))
      BY DEF TypedInv, EventsBounded
    <3>2. One(Has(evt_queue, P)) = 0 /\ One(Has(evt_queue, D)) \in {0, 1}
      BY <1>4 DEF One
    <3> QED BY <1>3, <3>1, <3>2
  <2>2. One(Has(evt_queue', P)) = 1 /\ One(Has(evt_queue', D)) = One(Has(evt_queue, D))
        /\ One(Has(evt_queue, D)) \in {0, 1}
    BY <1>5 DEF One
  <2>3. Len(evt_queue') <= MaxEvents + One(Has(evt_queue', P)) + One(Has(evt_queue', D))
    BY <1>3, <2>1, <2>2
  <2> QED BY <2>3 DEF EventsBounded
<1> QED BY <1>1, <1>3, <1>6, <1>7 DEF TypedInv, Typed

\* A JPEG event is put into a queue that has room.
LEMMA JpegEventTyped ==
  ASSUME TypedInv, JpegEvent
  PROVE  TypedInv'
<1> DEFINE P == "PREP_SNAPSHOT_DONE"
           D == "SNAPSHOT_DONE"
           J == "JPEG_EVT_NOTIFY"
<1>1. /\ Len(evt_queue) < MaxEvents /\ evt_queue' = Append(evt_queue, J)
      /\ UNCHANGED <<m_state, hal, api_queue, call, m_apiResult, server, pictures, notifier>>
  BY DEF JpegEvent, callback
<1>2. P \in Events /\ D \in Events /\ J \in Events /\ P # J /\ D # J
  BY DEF Events
<1>3. /\ evt_queue' \in Seq(Events) /\ Len(evt_queue') = Len(evt_queue) + 1
      /\ Len(evt_queue) \in Nat /\ MaxEvents \in Nat
      /\ \A e \in Events : /\ Has(evt_queue', e) <=> Has(evt_queue, e) \/ e = J
                           /\ Once(evt_queue, e) /\ (e = J => ~Has(evt_queue, e)) =>
                                Once(evt_queue', e)
  BY <1>1, <1>2, SendFacts
<1>4. /\ Has(evt_queue', P) <=> Has(evt_queue, P)
      /\ Has(evt_queue', D) <=> Has(evt_queue, D)
      /\ Once(evt_queue', P) /\ Once(evt_queue', D)
  BY <1>2, <1>3 DEF TypedInv, OneOfEach
<1>5. OneOfEach'
  BY <1>1, <1>4 DEF TypedInv, OneOfEach
<1>6. EventsBounded'
  <2>1. One(Has(evt_queue', P)) \in {0, 1} /\ One(Has(evt_queue', D)) \in {0, 1}
    BY DEF One
  <2>2. Len(evt_queue') <= MaxEvents + One(Has(evt_queue', P)) + One(Has(evt_queue', D))
    BY <1>1, <1>3, <2>1
  <2> QED BY <2>2 DEF EventsBounded
<1> QED BY <1>1, <1>3, <1>5, <1>6 DEF TypedInv, Typed

\* The notifier, which was idle, waits for one event only.
LEMMA NotifierTakeTyped ==
  ASSUME TypedInv, NotifierTake
  PROVE  TypedInv'
<1> DEFINE P == "PREP_SNAPSHOT_DONE"
           D == "SNAPSHOT_DONE"
<1>1. /\ notifier = "idle" /\ pictures > 0 /\ pictures' = pictures - 1
      /\ UNCHANGED <<m_state, hal, api_queue, call, m_apiResult, server>>
  BY DEF NotifierTake
<1>2. pictures' \in 0..MaxEvents
  BY <1>1, HalAssumption DEF TypedInv, Typed
<1>3. CASE UNCHANGED <<notifier, evt_queue>>
  BY <1>1, <1>2, <1>3 DEF TypedInv, Typed, OneOfEach, EventsBounded
<1>4. CASE notifier' = "waiting" /\ evt_queue' = Append(evt_queue, D)
  <2>1. P \in Events /\ D \in Events /\ P # D
    BY DEF Events
  <2>2. /\ evt_queue' \in Seq(Events) /\ Len(evt_queue') = Len(evt_queue) + 1
        /\ Len(evt_queue) \in Nat /\ MaxEvents \in Nat
        /\ \A e \in Events : /\ Has(evt_queue', e) <=> Has(evt_queue, e) \/ e = D
                             /\ Once(evt_queue, e) /\ (e = D => ~Has(evt_queue, e)) =>
                                  Once(evt_queue', e)
    BY <1>4, <2>1, SendFacts
  <2>3. ~Has(evt_queue, D) /\ Once(evt_queue, P) /\ Once(evt_queue, D)
    BY <1>1 DEF TypedInv, OneOfEach
  <2>4. /\ Has(evt_queue', D) /\ (Has(evt_queue', P) <=> Has(evt_queue, P))
        /\ Once(evt_queue', P) /\ Once(evt_queue', D)
    BY <2>1, <2>2, <2>3
  <2>5. OneOfEach'
    BY <1>1, <1>4, <2>4 DEF TypedInv, OneOfEach
  <2>6. EventsBounded'
    <3>1. Len(evt_queue) <= MaxEvents + One(Has(evt_queue, P)) + One(Has(evt_queue, D))
      BY DEF TypedInv, EventsBounded
    <3>2. /\ One(Has(evt_queue, D)) = 0 /\ One(Has(evt_queue', D)) = 1
          /\ One(Has(evt_queue', P)) = One(Has(evt_queue, P)) /\ One(Has(evt_queue, P)) \in {0, 1}
      BY <2>3, <2>4 DEF One
    <3>3. Len(evt_queue') <= MaxEvents + One(Has(evt_queue', P)) + One(Has(evt_queue', D))
      BY <2>2, <3>1, <3>2
    <3> QED BY <3>3 DEF EventsBounded
  <2> QED BY <1>1, <1>2, <1>4, <2>2, <2>5, <2>6 DEF TypedInv, Typed
<1> QED BY <1>3, <1>4 DEF NotifierTake

\* A call puts a command into the queue of requests.
LEMMA AskTyped ==
  ASSUME TypedInv, NEW c \in Commands, Ask(c)
  PROVE  TypedInv'
<1>1. /\ api_queue' = Append(api_queue, c) /\ m_apiResult' = "none"
      /\ UNCHANGED <<m_state, hal, evt_queue, server, pictures, notifier>>
  BY DEF Ask, callback
<1>2. api_queue' \in Seq(Commands)
  BY <1>1 DEF TypedInv, Typed
<1> QED BY <1>1, <1>2 DEF TypedInv, Typed, OneOfEach, EventsBounded

\* It starts so.
LEMMA TypedInit == Init => TypedInv
<1> SUFFICES ASSUME Init PROVE TypedInv
  OBVIOUS
<1>1. hal \in Hal
  <2>1. [c \in Channels |-> "none"] \in [Channels -> ChanStates]
    BY DEF ChanStates
  <2> QED BY <2>1 DEF Init, Hal
<1>2. ~Has(evt_queue, "PREP_SNAPSHOT_DONE") /\ ~Has(evt_queue, "SNAPSHOT_DONE")
  BY DEF Init, Has
<1>3. Once(evt_queue, "PREP_SNAPSHOT_DONE") /\ Once(evt_queue, "SNAPSHOT_DONE")
  BY DEF Init, Once
<1>4. OneOfEach
  BY <1>2, <1>3 DEF Init, OneOfEach
<1>5. EventsBounded
  <2>1. Len(evt_queue) = 0 /\ MaxEvents \in Nat
    BY HalAssumption DEF Init
  <2> QED BY <1>2, <2>1 DEF EventsBounded, One
<1>6. Typed
  <2>1. api_queue \in Seq(Commands) /\ evt_queue \in Seq(Events)
    BY DEF Init
  <2>2. pictures \in 0..MaxEvents
    BY HalAssumption DEF Init
  <2> QED BY <1>1, <2>1, <2>2, StateNames DEF Init, Typed
<1> QED BY <1>4, <1>5, <1>6 DEF TypedInv

\* And every step keeps it.
LEMMA TypedStep == TypedInv /\ [Next]_vars => TypedInv'
<1> SUFFICES ASSUME TypedInv, [Next]_vars PROVE TypedInv'
  OBVIOUS
<1>1. CASE Handle
  BY <1>1, HandleTyped
<1>2. CASE PrepareDone
  BY <1>2, PrepareDoneTyped
<1>3. CASE JpegEvent
  BY <1>3, JpegEventTyped
<1>4. CASE NotifierTake
  BY <1>4, NotifierTakeTyped
<1>5. CASE NotifierReturn
  <2>1. /\ notifier = "answered" /\ notifier' = "idle"
        /\ UNCHANGED <<m_state, hal, api_queue, evt_queue, m_apiResult, server, pictures>>
    BY <1>5 DEF NotifierReturn
  <2> QED BY <2>1 DEF TypedInv, Typed, OneOfEach, EventsBounded
<1>6. CASE TakeNext
  <2>1. Ask([evt |-> "TAKE_PICTURE", arg |-> FALSE])
    BY <1>6 DEF TakeNext
  <2> QED BY <2>1, AskTyped DEF Commands
<1>7. CASE Return
  <2>1. /\ m_apiResult' = "none"
        /\ UNCHANGED <<m_state, hal, api_queue, evt_queue, server, pictures, notifier>>
    BY <1>7 DEF Return, callback
  <2> QED BY <2>1 DEF TypedInv, Typed, OneOfEach, EventsBounded
<1>8. CASE \E c \in Requests : Request(c)
  <2>1. PICK c \in Requests : Ask(c)
    BY <1>8 DEF Request
  <2> QED BY <2>1, AskTyped DEF Commands
<1>9. CASE UNCHANGED vars
  BY <1>9 DEF vars, callback, TypedInv, Typed, OneOfEach, EventsBounded
<1> QED BY <1>1, <1>2, <1>3, <1>4, <1>5, <1>6, <1>7, <1>8, <1>9 DEF Next

\* Only handling a command changes the state and what it works on.
LEMMA OnlyHandle ==
  ASSUME [Next]_vars, ~Handle
  PROVE  m_state' = m_state /\ hal' = hal
BY DEF Next, vars, callback, PrepareDone, JpegEvent, NotifierTake, NotifierReturn, TakeNext,
       Return, Request, Ask

\* A step of the system is, for the state and what it works on, a step of a handler
\* or nothing.
LEMMA StepKept ==
  ASSUME TypedInv, [Next]_vars
  PROVE  \/ m_state' = m_state /\ hal' = hal
         \/ \E e, r : /\ Kept(m_state, hal, e, r) /\ m_state' = r.st /\ hal' = r.h
                      /\ e \in Commands \/ e.evt \in Events
<1>1. CASE Handle
  <2>1. PICK r : Kept(m_state, hal, NextCmd, r) /\ m_state' = r.st /\ hal' = r.h
    BY <1>1, HandleFacts DEF TypedInv
  <2>2. NextCmd \in Commands \/ NextCmd.evt \in Events
    BY <1>1, NextCmdFacts DEF TypedInv, Handle
  <2> QED BY <2>1, <2>2
<1> QED BY <1>1, OnlyHandle

\* The invariant of the queues: all have their types, each kind of event is underway at most
\* once but for those of the JPEGs, which MaxEvents bounds.
THEOREM TypedAlways == Spec => []TypedInv
BY TypedInit, TypedStep, PTL DEF Spec

\* Every variable has its type, the queue of events and the notifier's stay in their
\* bounds: the server and the notifier add at most one event each to those of the JPEGs.
THEOREM TypeCorrect == Spec => []TypeOK
<1>1. TypedInv => TypeOK
  <2> SUFFICES ASSUME TypedInv PROVE TypeOK
    OBVIOUS
  <2>1. Len(evt_queue) <= MaxEvents + 2
    <3>1. Len(evt_queue) \in Nat /\ MaxEvents \in Nat
      BY HalAssumption DEF TypedInv, Typed
    <3>2. /\ One(Has(evt_queue, "PREP_SNAPSHOT_DONE")) \in {0, 1}
          /\ One(Has(evt_queue, "SNAPSHOT_DONE")) \in {0, 1}
      BY DEF One
    <3> QED BY <3>1, <3>2 DEF TypedInv, EventsBounded
  <2> QED BY <2>1 DEF TypedInv, Typed, TypeOK, Hal, ChanStates
<1> QED BY <1>1, TypedAlways, PTL

\* Video is recorded only in the recording states, whatever fails and whatever is called.
THEOREM NoHiddenRecordingAlways == Spec => []NoHiddenRecording
<1>1. Init => RecordsOnly(m_state, hal)
  BY ChannelNames DEF Init, RecordsOnly
<1>2. TypedInv /\ RecordsOnly(m_state, hal) /\ [Next]_vars => RecordsOnly(m_state, hal)'
  BY StepKept DEF Kept
<1>3. RecordsOnly(m_state, hal) => NoHiddenRecording
  BY DEF RecordsOnly, NoHiddenRecording, Runs
<1> QED BY <1>1, <1>2, <1>3, TypedAlways, PTL DEF Spec

\* While no preview starts, no preview channel runs beside the capture channel: where
\* adding and starting channels do not fail, whatever else does.
THEOREM CaptureAloneAlways ==
  ASSUME NoAddStart
  PROVE  Spec => []CaptureAlone
<1>1. Init => Alone(m_state, hal)
  BY DEF Init, Alone
<1>2. TypedInv /\ Alone(m_state, hal) /\ [Next]_vars => Alone(m_state, hal)'
  BY StepKept DEF Kept
<1>3. Alone(m_state, hal) => CaptureAlone
  BY DEF Alone, CaptureAlone, Runs
<1> QED BY <1>1, <1>2, <1>3, TypedAlways, PTL DEF Spec

\* In the states that show a preview some channel of a preview runs, where adding and
\* starting channels and setting the hint do not fail.
THEOREM PreviewRunsAlways ==
  ASSUME Steady
  PROVE  Spec => []PreviewRuns
<1>1. Init => Shown(m_state, hal)
  BY DEF Init, Shown, PreviewStates
<1>2. TypedInv /\ Shown(m_state, hal) /\ [Next]_vars => Shown(m_state, hal)'
  BY StepKept DEF Kept
<1>3. Shown(m_state, hal) => PreviewRuns
  BY DEF Shown, Shows, PreviewRuns, Runs
<1> QED BY <1>1, <1>2, <1>3, TypedAlways, PTL DEF Spec

\* An application that neither releases the camera nor has its parameters refused.
CalmRequests == \A r \in Requests : IsCalm(r)

\* The post-processor works only while a picture is being taken.
THEOREM PicturesOnlyAlways ==
  ASSUME Steady, CalmRequests
  PROVE  Spec => []PicturesOnly
<1>1. Init => Pics(m_state, hal)
  BY ChannelNames DEF Init, Pics, RecStates, PreviewStates
<1>2. \A e : e \in Commands \/ e.evt \in Events => IsCalm(e)
  BY DEF Commands, Events, IsCalm, CalmRequests
<1>3. TypedInv /\ Pics(m_state, hal) /\ [Next]_vars => Pics(m_state, hal)'
  BY <1>2, StepKept DEF Kept
<1>4. Pics(m_state, hal) => PicturesOnly
  BY DEF Pics, PicturesOnly
<1> QED BY <1>1, <1>3, <1>4, TypedAlways, PTL DEF Spec

=============================================================================
