------------------------- MODULE InvocationsProofs --------------------------
(***************************************************************************)
(* Whatever the manifests, their edits, the links and the faults: cbe      *)
(* builds what the manifest it was started for says, and its links read    *)
(* their own inputs, except where Invocations says that they may not.      *)
(***************************************************************************)
EXTENDS Invocations, SequenceTheorems, TLAPS

\* Nothing on disk is from the future.
ClockInv ==
  /\ \A m \in Manifest : manifest[m].time <= now
  /\ bin.time <= now
  /\ \A r \in Rsp : rsp[r].time <= now

\* A snapshot newer than a manifest that is there and not suspect holds its
\* text, and all of it once it is written.
BinInv ==
  \A m \in Manifest \ suspect : Exists(m) /\ BinIsNewer(m) =>
    /\ bin.text = manifest[m].text
    /\ bin.size = SnapshotSize(bin.text) \/ phase = "writing"

\* A response file newer than a manifest that is there and not suspect holds the
\* inputs of its link, unless that link is just writing it.
RspInv ==
  \A m \in Manifest \ suspect : \A q \in Outputs(manifest[m].text) :
    Exists(m) /\ rsp[RspOf[q]].time > manifest[m].time =>
      rsp[RspOf[q]].lines = Links[manifest[m].text][q] \/ link[q] = "open"

\* What a link has opened is empty until it writes, if the file is its own.
OpenInv ==
  \A o \in Output : link[o] = "open" /\ ~Misleads(o, loaded) =>
    rsp[RspOf[o]].lines = <<>>

\* A response file that a link would take.
Usable(r) == RspExists(r) /\ RspIsNewer(r)

\* What a link may use, uses or has used are its own inputs.
LinkInv ==
  phase # "idle" /\ ~doubt => \A o \in Outputs(loaded) :
    /\ link[o] \in {"idle", "due", "found"} /\ Usable(RspOf[o]) =>
         rsp[RspOf[o]].lines = Inputs(o)
    /\ link[o] = "named" /\ RspExists(RspOf[o]) => rsp[RspOf[o]].lines = Inputs(o)
    /\ link[o] = "done" => read[o] = Inputs(o)

IInv ==
  /\ TypeOK /\ ClockInv /\ BinInv /\ RspInv /\ OpenInv /\ LinkInv

-----------------------------------------------------------------------------
(* The operators. *)

\* Lines written over an empty file are what the file then holds.
LEMMA OverNothing ==
  ASSUME NEW new \in Seq(File) PROVE Over(new, <<>>) = new
<1>1. SubSeq(<<>>, Len(new) + 1, Len(<<>>)) = <<>>
  <2>1. Len(new) + 1 \in Int /\ 0 \in Int /\ 0 < Len(new) + 1
    OBVIOUS
  <2>2. Len(<<>>) = 0
    OBVIOUS
  <2> QED
    BY <2>1, <2>2, SubSeqEmpty
<1>2. new \o <<>> = new
  BY ConcatEmptySeq
<1> QED
  BY <1>1, <1>2 DEF Over

LEMMA OverType ==
  ASSUME NEW new \in Seq(File), NEW old \in Seq(File)
  PROVE  Over(new, old) \in Seq(File)
<1> DEFINE rest == SubSeq(old, Len(new) + 1, Len(old))
<1>1. Len(new) + 1 \in Int /\ Len(old) \in Int
      /\ \A i \in Len(new) + 1 .. Len(old) : old[i] \in File
  OBVIOUS
<1>2. rest \in Seq(File)
  BY <1>1, SubSeqProperties
<1> QED
  BY <1>2, ConcatProperties DEF Over

LEMMA BeginningType ==
  ASSUME NEW all \in Seq(File), NEW n \in 0 .. Len(all) - 1
  PROVE  SubSeq(all, 1, n) \in Seq(File)
<1>1. 1 \in Int /\ n \in Int /\ \A i \in 1 .. n : all[i] \in File
  OBVIOUS
<1> QED
  BY <1>1, SubSeqProperties

\* A link step that is on its way belongs to the text that is loaded.
LEMMA LinkFacts ==
  ASSUME TypeOK, NEW o \in Output, link[o] # "idle"
  PROVE  /\ phase = "building" /\ build_file \in Manifest
         /\ loaded \in Text /\ o \in Outputs(loaded)
         /\ Inputs(o) \in Seq(File) /\ RspOf[o] \in Rsp
<1>1. phase = "building" /\ build_file \in Manifest /\ o \in Outputs(loaded)
  BY DEF TypeOK
<1>2. loaded \in Text /\ o \in DOMAIN Links[loaded]
  BY <1>1 DEF Outputs
<1>3. Inputs(o) \in Seq(File) /\ RspOf[o] \in Rsp
  BY <1>2, InvocationsAssumption DEF Inputs
<1> QED
  BY <1>1, <1>2, <1>3

LEMMA OutputFacts ==
  ASSUME NEW t, NEW o \in Outputs(t)
  PROVE  t \in Text /\ o \in Output /\ Links[t][o] \in Seq(File) /\ RspOf[o] \in Rsp
BY InvocationsAssumption DEF Outputs

LEMMA SizeFacts ==
  ASSUME NEW t \in Text
  PROVE  /\ SnapshotSize(t) \in Nat /\ StringsSize[t] \in Nat
         /\ SnapshotSize(t) - HeaderSize >= StringsSize[t]
         /\ SnapshotSize(t) >= HeaderSize
         /\ SnapshotSize(t) = HeaderSize + BodySize[t] + StringsSize[t]
BY InvocationsAssumption DEF SnapshotSize, HeaderSize

\* Two links of one text that share a response file mislead each other.
LEMMA SharingMisleads ==
  ASSUME NEW t, NEW p, NEW o \in Outputs(t), p # o, RspOf[p] = RspOf[o]
  PROVE  Misleads(p, t)
BY DEF Misleads

-----------------------------------------------------------------------------
(* Every step keeps the invariant. *)

LEMMA Initially == Init => IInv
<1> SUFFICES ASSUME Init PROVE IInv
  OBVIOUS
<1> USE InvocationsAssumption DEF Init, Time, Missing
<1>1. (CHOOSE t \in Text : TRUE) \in Text
  OBVIOUS
<1>2. \A t \in Text : HeaderSize + BodySize[t] + StringsSize[t] \in Nat
  BY DEF HeaderSize
<1>3. <<>> \in Seq(File)
  OBVIOUS
<1>4. TypeOK
  <2>1. now \in Time \ {Missing} /\ Missing \in Time /\ 1 \in Time \ {Missing}
    OBVIOUS
  <2>2. manifest \in [Manifest -> [text : Text, time : Time]]
    BY <2>1
  <2>3. bin.time \in Time /\ bin.text \in Text
        /\ bin.size \in 0 .. HeaderSize + BodySize[bin.text] + StringsSize[bin.text]
    BY <1>1, <1>2, <2>1
  <2>4. rsp \in [Rsp -> [time : Time, lines : Seq(File)]]
    BY <1>3, <2>1
  <2>5. /\ link \in [Output -> Progress]
        /\ read \in [Output -> Seq(File)]
        /\ \A o \in Output : link[o] = "idle"
    BY <1>3 DEF Idle, NothingRead, Progress
  <2> QED
    BY <2>1, <2>2, <2>3, <2>4, <2>5 DEF TypeOK
<1>5. ClockInv
  BY DEF ClockInv
<1>6. BinInv
  BY DEF BinInv, BinIsNewer
<1>7. RspInv
  BY OutputFacts DEF RspInv, Exists
<1>8. OpenInv /\ LinkInv
  BY DEF OpenInv, LinkInv, Idle
<1> QED
  BY <1>4, <1>5, <1>6, <1>7, <1>8 DEF IInv

LEMMA TickKeeps == ASSUME IInv, Tick PROVE IInv'
<1> USE DEF IInv, Tick, derived, process, history
<1>1. TypeOK'
  <2>1. now' \in Time \ {Missing}
    BY InvocationsAssumption DEF TypeOK, Time, Missing
  <2> QED
    BY <2>1 DEF TypeOK
<1>2. ClockInv'
  BY DEF TypeOK, ClockInv, Time
<1>3. BinInv' /\ RspInv' /\ OpenInv' /\ LinkInv'
  BY DEF BinInv, BinIsNewer, RspInv, OpenInv, Misleads, LinkInv, Usable, RspIsNewer,
     RspExists, Exists, Inputs
<1> QED
  BY <1>1, <1>2, <1>3

LEMMA EditKeeps ==
  ASSUME IInv, NEW m \in Manifest, NEW t \in Text, Edit(m, t) PROVE IInv'
<1> USE DEF IInv, Edit, derived, process
<1>1. manifest'[m] = [text |-> t, time |-> now]
      /\ \A n \in Manifest : n # m => manifest'[n] = manifest[n]
  BY DEF TypeOK
<1>2. TypeOK'
  <2>1. manifest' \in [Manifest -> [text : Text, time : Time]]
    BY DEF TypeOK
  <2>2. suspect' \subseteq Manifest
    BY DEF TypeOK
  <2> QED
    BY <2>1, <2>2 DEF TypeOK
<1>3. now \in Nat /\ now <= now
  BY DEF TypeOK, Time
<1>4. ClockInv'
  BY <1>1, <1>3 DEF ClockInv
<1>5. BinInv'
  BY <1>1, <1>3 DEF ClockInv, BinInv, BinIsNewer, Exists, TypeOK, Time
<1>6. RspInv'
  <2> SUFFICES ASSUME NEW n \in (Manifest \ suspect)', NEW q \in Outputs(manifest[n].text)',
                      (Exists(n) /\ rsp[RspOf[q]].time > manifest[n].time)'
               PROVE  (rsp[RspOf[q]].lines = Links[manifest[n].text][q] \/ link[q] = "open")'
    BY DEF RspInv
  <2>1. RspOf[q] \in Rsp
    BY OutputFacts
  <2>2. n # m
    BY <2>1, <1>1, <1>3 DEF ClockInv, TypeOK, Time
  <2> QED
    BY <2>2, <1>1 DEF RspInv, Exists
<1>7. OpenInv'
  BY DEF OpenInv, Misleads, Inputs
<1>8. LinkInv'
  <2> SUFFICES ASSUME phase # "idle", ~doubt, NEW o \in Outputs(loaded)
               PROVE  Usable(RspOf[o])' => Usable(RspOf[o])
    BY DEF LinkInv, Inputs, RspExists
  <2>1. build_file \in Manifest /\ RspOf[o] \in Rsp
    BY OutputFacts DEF TypeOK
  <2> QED
    BY <2>1, <1>1, <1>3 DEF ClockInv, Usable, RspIsNewer, RspExists, Exists, Missing,
       TypeOK, Time
<1> QED
  BY <1>2, <1>4, <1>5, <1>6, <1>7, <1>8

LEMMA NoTime == Missing \in Time
BY InvocationsAssumption DEF Missing, Time

LEMMA RemoveKeeps ==
  ASSUME IInv, NEW m \in Manifest, Remove(m) PROVE IInv'
<1> USE DEF IInv, Remove, derived, process
<1>1. manifest'[m].text = manifest[m].text /\ manifest'[m].time = Missing
      /\ \A n \in Manifest : n # m => manifest'[n] = manifest[n]
  BY DEF TypeOK
<1>2. TypeOK'
  <2>1. manifest' \in [Manifest -> [text : Text, time : Time]]
    BY NoTime DEF TypeOK
  <2>2. doubt' \in BOOLEAN
    BY DEF TypeOK
  <2> QED
    BY <2>1, <2>2 DEF TypeOK
<1>3. ClockInv'
  BY <1>1 DEF ClockInv, Missing, TypeOK, Time
<1>4. BinInv'
  BY <1>1 DEF BinInv, BinIsNewer, Exists
<1>5. RspInv'
  BY <1>1 DEF RspInv, Exists
<1>6. OpenInv'
  BY DEF OpenInv, Misleads, Inputs
<1>7. LinkInv'
  <2> SUFFICES ASSUME phase # "idle", ~doubt', NEW o \in Outputs(loaded),
                      link[o] \in {"idle", "due", "found"}, Usable(RspOf[o])'
               PROVE  rsp[RspOf[o]].lines = Inputs(o)
    BY DEF LinkInv, Inputs, RspExists
  <2>1. build_file \in Manifest /\ RspExists(RspOf[o])
    BY DEF TypeOK, Usable, RspExists
  <2>2. CASE m = build_file
    BY <2>1, <2>2 DEF MayMistake
  <2>3. CASE m # build_file
    <3>1. Usable(RspOf[o])
      BY <2>1, <2>3, <1>1 DEF Usable, RspIsNewer, RspExists, Exists
    <3> QED
      BY <3>1 DEF LinkInv
  <2> QED
    BY <2>2, <2>3
<1> QED
  BY <1>2, <1>3, <1>4, <1>5, <1>6, <1>7

LEMMA RemoveRspKeeps ==
  ASSUME IInv, NEW r \in Rsp, RemoveRsp(r) PROVE IInv'
<1> USE DEF IInv, RemoveRsp, process, history
<1>1. rsp'[r].time = Missing /\ rsp'[r].lines = <<>>
      /\ \A any \in Rsp : any # r => rsp'[any] = rsp[any]
  BY DEF TypeOK
<1>2. TypeOK'
  <2>1. rsp' \in [Rsp -> [time : Time, lines : Seq(File)]]
    BY NoTime DEF TypeOK
  <2> QED
    BY <2>1 DEF TypeOK
<1>3. ClockInv'
  BY <1>1 DEF ClockInv, Missing, TypeOK, Time
<1>4. BinInv'
  BY DEF BinInv, BinIsNewer, Exists
<1>5. RspInv'
  <2> SUFFICES ASSUME NEW n \in Manifest \ suspect, NEW q \in Outputs(manifest[n].text),
                      Exists(n), rsp'[RspOf[q]].time > manifest[n].time
               PROVE  rsp'[RspOf[q]] = rsp[RspOf[q]]
    BY DEF RspInv, Exists
  <2>1. RspOf[q] \in Rsp
    BY OutputFacts
  <2>2. RspOf[q] # r
    BY <1>1 DEF Missing, TypeOK, Time
  <2> QED
    BY <2>1, <2>2, <1>1
<1>6. OpenInv'
  <2> SUFFICES ASSUME NEW o \in Output, link[o] = "open", ~Misleads(o, loaded)
               PROVE  rsp'[RspOf[o]].lines = <<>>
    BY DEF OpenInv, Misleads
  <2>1. RspOf[o] # r /\ RspOf[o] \in Rsp
    BY InvocationsAssumption
  <2> QED
    BY <2>1, <1>1 DEF OpenInv
<1>7. LinkInv'
  <2> SUFFICES ASSUME phase # "idle", ~doubt, NEW o \in Outputs(loaded), RspExists(RspOf[o])'
               PROVE  rsp'[RspOf[o]] = rsp[RspOf[o]]
    BY DEF LinkInv, Inputs, Usable, RspExists, RspIsNewer, Exists
  <2>1. RspOf[o] \in Rsp
    BY OutputFacts
  <2>2. RspOf[o] # r
    BY <1>1 DEF RspExists
  <2> QED
    BY <2>1, <2>2, <1>1
<1> QED
  BY <1>2, <1>3, <1>4, <1>5, <1>6, <1>7

\* What parse_bin takes from a whole snapshot is its text.
LEMMA WholeSnapshot ==
  ASSUME TypeOK, bin.size = SnapshotSize(bin.text) PROVE ParseBin = bin.text
<1>1. bin.text \in Text
  BY DEF TypeOK
<1> QED
  BY <1>1, SizeFacts DEF ParseBin, HeaderSize

\* What an invocation loads for a manifest that is not suspect.
LEMMA StartLoads ==
  ASSUME IInv, NEW m \in Manifest, Start(m), m \notin suspect
  PROVE  loaded' = manifest[m].text
<1>1. CASE BinIsNewer(m)
  <2>1. bin.text = manifest[m].text /\ bin.size = SnapshotSize(bin.text)
    BY <1>1 DEF IInv, BinInv, Start
  <2> QED
    BY <1>1, <2>1, WholeSnapshot DEF IInv, Start
<1>2. CASE ~BinIsNewer(m)
  BY <1>2 DEF Start
<1> QED
  BY <1>1, <1>2

\* When links begin they are due or not, and belong to the text.
LEMMA BeginFacts ==
  ASSUME NEW t, Begin(t)
  PROVE  /\ link' \in [Output -> {"idle", "due"}]
         /\ \A o \in Output : link'[o] # "idle" => o \in Outputs(t)
BY DEF Begin

\* There is no link step before the graph is there.
LEMMA NoLinkYet ==
  ASSUME TypeOK, phase # "building", NEW o \in Output PROVE link[o] = "idle"
BY DEF TypeOK

LEMMA StartKeeps ==
  ASSUME IInv, NEW m \in Manifest, Start(m) PROVE IInv'
<1> USE DEF IInv
<1>1. loaded' \in Text \cup {Refused, Garbage}
      /\ (phase' = "mapped" => loaded' \in Text) /\ phase' \in {"mapped", "building"}
  BY DEF Start, ParseBin, TypeOK
<1>2. /\ link' \in [Output -> {"idle", "due"}]
      /\ \A o \in Output : link'[o] # "idle" => phase' = "building" /\ o \in Outputs(loaded')
  BY BeginFacts DEF Start, Idle
<1>3. TypeOK'
  <2>1. read' \in [Output -> Seq(File)]
    BY DEF Start, NothingRead
  <2>2. UNCHANGED <<now, manifest, bin, rsp, suspect>> /\ doubt' \in BOOLEAN
        /\ build_file' = m
    BY DEF Start, derived
  <2>3. link' \in [Output -> Progress]
    BY <1>2 DEF Progress
  <2> QED
    BY <1>1, <1>2, <2>1, <2>2, <2>3 DEF TypeOK
<1>4. ClockInv'
  BY DEF Start, derived, ClockInv
<1>5. BinInv'
  BY DEF Start, derived, BinInv, BinIsNewer, Exists
<1>6. phase = "idle" /\ UNCHANGED <<manifest, bin, rsp, suspect>>
  BY DEF Start, derived
<1>7. RspInv'
  <2>1. \A n \in Manifest : \A o \in Outputs(manifest[n].text) : link[o] = "idle"
    BY <1>6, NoLinkYet, OutputFacts
  <2> QED
    BY <2>1, <1>6 DEF RspInv, Exists
<1>8. OpenInv'
  BY <1>2 DEF OpenInv
<1>9. LinkInv'
  <2> SUFFICES ASSUME ~doubt', NEW o \in Outputs(loaded')
               PROVE  /\ link'[o] \in {"idle", "due"}
                      /\ Usable(RspOf[o])' => rsp[RspOf[o]].lines = Links[loaded'][o]
    BY <1>6 DEF LinkInv, Inputs
  <2>1. m \notin suspect /\ build_file' = m /\ Exists(m)
    BY DEF Start
  <2>2. loaded' = manifest[m].text
    BY <2>1, StartLoads
  <2>3. o \in Output /\ link[o] = "idle"
    BY <1>6, NoLinkYet, OutputFacts
  <2>4. Usable(RspOf[o])' => rsp[RspOf[o]].time > manifest[m].time
    BY <2>1, <1>6 DEF Usable, RspIsNewer, RspExists, Exists
  <2>5. Usable(RspOf[o])' => rsp[RspOf[o]].lines = Links[loaded'][o]
    BY <2>1, <2>2, <2>3, <2>4 DEF RspInv
  <2> QED
    BY <2>3, <2>5, <1>2
<1> QED
  BY <1>3, <1>4, <1>5, <1>7, <1>8, <1>9

-----------------------------------------------------------------------------
(* Steps of emit_bin. *)

\* What a step keeps that writes the snapshot, or leaves it, before there is a
\* link step: the invariants that do not speak of the snapshot.
LEMMA BinStepKeeps ==
  ASSUME IInv, phase \in {"mapped", "writing"}, phase' \in {"writing", "building"},
         UNCHANGED <<now, manifest, rsp, build_file, loaded, read, doubt>>,
         suspect \subseteq suspect', suspect' \subseteq Manifest,
         phase' = "writing" => UNCHANGED link,
         phase' = "building" => Begin(loaded),
         bin'.time \in Time /\ bin'.time <= now /\ bin'.text \in Text,
         bin'.size \in 0 .. SnapshotSize(bin'.text)
  PROVE  TypeOK' /\ ClockInv' /\ RspInv' /\ OpenInv' /\ LinkInv'
<1> USE DEF IInv
<1>1. loaded \in Text /\ build_file \in Manifest
  BY DEF TypeOK
<1>2. \A o \in Output : link[o] = "idle"
  BY NoLinkYet
<1>3. /\ link' \in [Output -> {"idle", "due"}]
      /\ \A o \in Output : link'[o] # "idle" => phase' = "building" /\ o \in Outputs(loaded)
  <2>1. CASE phase' = "writing"
    BY <2>1, <1>2 DEF TypeOK
  <2>2. CASE phase' = "building"
    BY <2>2, BeginFacts
  <2> QED
    BY <2>1, <2>2
<1>4. TypeOK'
  <2>1. link' \in [Output -> Progress]
    BY <1>3 DEF Progress
  <2>2. bin'.size \in 0 .. HeaderSize + BodySize[bin'.text] + StringsSize[bin'.text]
    BY DEF SnapshotSize
  <2>3. phase' \in {"idle", "mapped", "writing", "building"}
    OBVIOUS
  <2> QED
    BY <1>1, <1>3, <2>1, <2>2, <2>3 DEF TypeOK
<1>5. ClockInv'
  BY DEF ClockInv
<1>6. RspInv'
  <2>1. \A n \in Manifest : \A o \in Outputs(manifest[n].text) : link[o] = "idle"
    BY <1>2, OutputFacts
  <2> QED
    BY <2>1 DEF RspInv, Exists
<1>7. OpenInv'
  BY <1>3 DEF OpenInv
<1>8. LinkInv'
  <2>1. \A o \in Outputs(loaded) : o \in Output
    BY OutputFacts
  <2>2. \A r : Usable(r)' = Usable(r)
    BY DEF Usable, RspIsNewer, RspExists, Exists
  <2> QED
    BY <1>2, <1>3, <2>1, <2>2 DEF LinkInv, Inputs
<1> QED
  BY <1>4, <1>5, <1>6, <1>7, <1>8

\* When the snapshot is written, whoever has another text becomes suspect.
LEMMA BinWritten ==
  ASSUME TypeOK, SuspectForBin(loaded), UNCHANGED manifest,
         bin'.text = loaded,
         bin'.size = SnapshotSize(loaded) \/ phase' = "writing"
  PROVE  BinInv'
BY DEF BinInv, SuspectForBin

LEMMA NowFacts == ASSUME TypeOK PROVE now \in Time /\ now <= now /\ now # Missing
BY DEF TypeOK, Time

LEMMA OpenBinKeeps == ASSUME IInv, OpenBin PROVE IInv'
<1>1. TypeOK /\ loaded \in Text /\ suspect \subseteq Manifest
  BY DEF IInv, OpenBin, TypeOK
<1>2. bin'.time = now /\ bin'.text = loaded /\ bin'.size = 0
  BY DEF OpenBin
<1>3. bin'.size \in 0 .. SnapshotSize(bin'.text)
  BY <1>1, <1>2, SizeFacts
<1>4. TypeOK' /\ ClockInv' /\ RspInv' /\ OpenInv' /\ LinkInv'
  BY <1>1, <1>2, <1>3, NowFacts, BinStepKeeps DEF OpenBin, SuspectForBin
<1>5. BinInv'
  BY <1>1, <1>2, BinWritten DEF OpenBin
<1> QED
  BY <1>4, <1>5 DEF IInv

LEMMA NoBinKeeps == ASSUME IInv, NoBin PROVE IInv'
<1>1. TypeOK /\ suspect \subseteq Manifest
  BY DEF IInv, TypeOK
<1>2. bin'.time \in Time /\ bin'.time <= now /\ bin'.text \in Text
      /\ bin'.size \in 0 .. SnapshotSize(bin'.text)
  BY DEF IInv, TypeOK, ClockInv, NoBin, derived, SnapshotSize
<1>3. TypeOK' /\ ClockInv' /\ RspInv' /\ OpenInv' /\ LinkInv'
  BY <1>1, <1>2, BinStepKeeps DEF NoBin, derived, history
<1>4. BinInv'
  BY DEF IInv, BinInv, BinIsNewer, Exists, NoBin, derived, history
<1> QED
  BY <1>3, <1>4 DEF IInv

LEMMA WriteBinKeeps == ASSUME IInv, WriteBin PROVE IInv'
<1>1. TypeOK /\ loaded \in Text /\ suspect \subseteq Manifest
  BY DEF IInv, WriteBin, TypeOK
<1>2. bin'.time = now /\ bin'.text = loaded /\ bin'.size = SnapshotSize(loaded)
  BY DEF WriteBin
<1>3. bin'.size \in 0 .. SnapshotSize(bin'.text)
  BY <1>1, <1>2, SizeFacts
<1>4. TypeOK' /\ ClockInv' /\ RspInv' /\ OpenInv' /\ LinkInv'
  BY <1>1, <1>2, <1>3, NowFacts, BinStepKeeps DEF WriteBin, SuspectForBin
<1>5. BinInv'
  BY <1>1, <1>2, BinWritten DEF WriteBin
<1> QED
  BY <1>4, <1>5 DEF IInv

LEMMA FullDiskAtBinKeeps == ASSUME IInv, FullDiskAtBin PROVE IInv'
<1>1. TypeOK /\ loaded \in Text /\ suspect \subseteq Manifest
  BY DEF IInv, FullDiskAtBin, TypeOK
<1>2. PICK size \in 0 .. SnapshotSize(loaded) - 1 :
        bin' = [time |-> now, text |-> loaded, size |-> size]
  BY DEF FullDiskAtBin, CutBin
<1>3. bin'.size \in 0 .. SnapshotSize(bin'.text)
  BY <1>1, <1>2, SizeFacts
<1>4. suspect' = Manifest
  BY DEF FullDiskAtBin, CutBin
<1>5. TypeOK' /\ ClockInv' /\ RspInv' /\ OpenInv' /\ LinkInv'
  BY <1>1, <1>2, <1>3, <1>4, NowFacts, BinStepKeeps DEF FullDiskAtBin
<1>6. BinInv'
  BY <1>4 DEF BinInv, FullDiskAtBin
<1> QED
  BY <1>5, <1>6 DEF IInv

-----------------------------------------------------------------------------
(* Steps of a link. *)

\* What every step of a link keeps.
LEMMA MoveFacts ==
  ASSUME IInv, NEW o \in Output, NEW from, from # "idle",
         NEW to \in Progress \ {"idle", "due"}, Moves(o, from, to)
  PROVE  /\ phase = "building" /\ phase' = "building" /\ o \in Outputs(loaded)
         /\ loaded \in Text /\ build_file \in Manifest
         /\ Inputs(o) \in Seq(File) /\ RspOf[o] \in Rsp
         /\ link[o] = from /\ link'[o] = to /\ \A p \in Output : p # o => link'[p] = link[p]
         /\ link' \in [Output -> Progress]
         /\ \A p \in Output : link'[p] # "idle" => p \in Outputs(loaded)
         /\ UNCHANGED <<now, manifest, bin, phase, build_file, loaded>>
<1>1. link[o] # "idle" /\ link \in [Output -> Progress]
  BY DEF IInv, Moves, TypeOK
<1>2. phase = "building" /\ o \in Outputs(loaded) /\ loaded \in Text /\ build_file \in Manifest
      /\ Inputs(o) \in Seq(File) /\ RspOf[o] \in Rsp
  BY <1>1, LinkFacts DEF IInv
<1>3. link' = [link EXCEPT ![o] = to] /\ link[o] = from
      /\ UNCHANGED <<now, manifest, bin, phase, build_file, loaded>>
  BY DEF Moves
<1>4. \A p \in Output : link[p] # "idle" => p \in Outputs(loaded)
  BY DEF IInv, TypeOK
<1> QED
  BY <1>1, <1>2, <1>3, <1>4

\* The types, the clock and the snapshot.
LEMMA MoveKeeps ==
  ASSUME IInv, NEW o \in Output, NEW from, from # "idle",
         NEW to \in Progress \ {"idle", "due"}, Moves(o, from, to),
         rsp' \in [Rsp -> [time : Time, lines : Seq(File)]],
         \A r \in Rsp : rsp'[r].time <= now,
         read' \in [Output -> Seq(File)],
         suspect \subseteq suspect', suspect' \subseteq Manifest, doubt' \in BOOLEAN
  PROVE  TypeOK' /\ ClockInv' /\ BinInv'
<1>1. /\ phase' = "building"
      /\ link' \in [Output -> Progress]
      /\ \A p \in Output : link'[p] # "idle" => p \in Outputs(loaded)
      /\ UNCHANGED <<now, manifest, bin, phase, build_file, loaded>>
  BY MoveFacts
<1>2. TypeOK'
  BY <1>1 DEF IInv, TypeOK
<1>3. ClockInv'
  BY <1>1 DEF IInv, ClockInv
<1>4. BinInv'
  BY <1>1 DEF IInv, BinInv, BinIsNewer, Exists
<1> QED
  BY <1>2, <1>3, <1>4

\* A step that writes no response file and makes nothing right or wrong.
LEMMA QuietMoveKeeps ==
  ASSUME IInv, NEW o \in Output, NEW from \in {"due", "found", "listed", "named"},
         NEW to \in {"found", "generating", "listed", "named", "done", "failed"},
         Moves(o, from, to), to = "found" => from = "due",
         UNCHANGED <<rsp, history>>, read' \in [Output -> Seq(File)],
         \A p \in Output : p # o => read'[p] = read[p],
         to = "named" /\ ~doubt /\ RspExists(RspOf[o]) => rsp[RspOf[o]].lines = Inputs(o),
         to = "done" /\ ~doubt => read'[o] = Inputs(o)
  PROVE  IInv'
<1>1. /\ phase = "building" /\ o \in Outputs(loaded)
      /\ link[o] = from /\ link'[o] = to /\ \A p \in Output : p # o => link'[p] = link[p]
      /\ UNCHANGED <<now, manifest, bin, phase, build_file, loaded>>
  BY MoveFacts DEF Progress
<1>2. rsp' = rsp /\ suspect' = suspect /\ doubt' = doubt
  BY DEF history
<1>3. TypeOK' /\ ClockInv' /\ BinInv'
  <2>1. from # "idle" /\ to \in Progress \ {"idle", "due"}
    BY DEF Progress
  <2>2. /\ rsp' \in [Rsp -> [time : Time, lines : Seq(File)]]
        /\ \A r \in Rsp : rsp'[r].time <= now
    BY <1>2 DEF IInv, TypeOK, ClockInv
  <2>3. suspect \subseteq suspect' /\ suspect' \subseteq Manifest /\ doubt' \in BOOLEAN
    BY <1>2 DEF IInv, TypeOK
  <2> QED
    BY <2>1, <2>2, <2>3, MoveKeeps
<1>4. \A p \in Output : link'[p] = "open" <=> link[p] = "open"
  BY <1>1
<1>5. RspInv'
  <2>1. \A m : Exists(m)' <=> Exists(m)
    BY <1>1 DEF Exists
  <2>2. \A m : \A q \in Outputs(manifest[m].text) : q \in Output
    BY OutputFacts
  <2> QED
    BY <1>1, <1>2, <1>4, <2>1, <2>2 DEF IInv, RspInv
<1>6. OpenInv'
  <2>1. \A p : Misleads(p, loaded)' <=> Misleads(p, loaded)
    BY <1>1 DEF Misleads
  <2> QED
    BY <1>1, <1>2, <1>4, <2>1 DEF IInv, OpenInv
<1>7. LinkInv'
  <2> SUFFICES ASSUME ~doubt, NEW p \in Outputs(loaded)
               PROVE  /\ link'[p] \in {"idle", "due", "found"} /\ Usable(RspOf[p]) =>
                           rsp[RspOf[p]].lines = Inputs(p)
                      /\ link'[p] = "named" /\ RspExists(RspOf[p]) =>
                           rsp[RspOf[p]].lines = Inputs(p)
                      /\ link'[p] = "done" => read'[p] = Inputs(p)
    <3>1. \A r : (Usable(r)' <=> Usable(r)) /\ (RspExists(r)' <=> RspExists(r))
      BY <1>1, <1>2 DEF Usable, RspIsNewer, RspExists, Exists
    <3>2. \A p : Inputs(p)' = Inputs(p)
      BY <1>1 DEF Inputs
    <3> QED
      BY <1>1, <1>2, <3>1, <3>2 DEF LinkInv
  <2>1. p \in Output
    BY OutputFacts
  <2>2. CASE p = o
    <3>1. link'[o] = "found" /\ Usable(RspOf[o]) => rsp[RspOf[o]].lines = Inputs(o)
      BY <1>1 DEF IInv, LinkInv
    <3> QED
      BY <3>1, <2>2, <1>1
  <2>3. CASE p # o
    BY <2>1, <2>3, <1>1 DEF IInv, LinkInv
  <2> QED
    BY <2>2, <2>3
<1> QED
  BY <1>3, <1>5, <1>6, <1>7 DEF IInv

LEMMA OtherwiseFacts ==
  ASSUME NEW o PROVE Otherwise(o) \in {"generating", "listed"}
BY DEF Otherwise

LEMMA AskForRspKeeps ==
  ASSUME IInv, NEW o \in Output, AskForRsp(o) PROVE IInv'
<1> DEFINE to == IF RspExists(RspOf[o]) THEN "found" ELSE Otherwise(o)
<1>1. to \in {"found", "generating", "listed"}
  BY OtherwiseFacts
<1>2. Moves(o, "due", to) /\ UNCHANGED <<rsp, read, history>>
  BY DEF AskForRsp
<1>3. read' \in [Output -> Seq(File)]
  BY <1>2 DEF IInv, TypeOK
<1> HIDE DEF to
<1> QED
  BY <1>1, <1>2, <1>3, QuietMoveKeeps

LEMMA ChooseInputsKeeps ==
  ASSUME IInv, NEW o \in Output, ChooseInputs(o) PROVE IInv'
<1> DEFINE to == IF RspIsNewer(RspOf[o]) THEN "named" ELSE Otherwise(o)
<1>1. to \in {"generating", "listed", "named"}
  BY OtherwiseFacts
<1>2. Moves(o, "found", to) /\ UNCHANGED <<rsp, read, history>>
  BY DEF ChooseInputs
<1>3. to = "named" => RspIsNewer(RspOf[o])
  BY OtherwiseFacts
<1>4. o \in Outputs(loaded) /\ link[o] = "found" /\ phase = "building"
  <2>1. to \in Progress \ {"idle", "due"}
    BY <1>1 DEF Progress
  <2> HIDE DEF to
  <2> QED
    BY <2>1, <1>2, MoveFacts
<1>5. to = "named" /\ ~doubt /\ RspExists(RspOf[o]) => rsp[RspOf[o]].lines = Inputs(o)
  BY <1>3, <1>4 DEF IInv, LinkInv, Usable
<1>6. read' \in [Output -> Seq(File)]
  BY <1>2 DEF IInv, TypeOK
<1> HIDE DEF to
<1> QED
  BY <1>1, <1>2, <1>5, <1>6, QuietMoveKeeps

LEMMA LinkKeeps ==
  ASSUME IInv, NEW o \in Output, Link(o) PROVE IInv'
<1>1. PICK how \in {"listed", "named"} :
        /\ how = "named" => RspExists(RspOf[o])
        /\ Moves(o, how, "done")
        /\ read' = [read EXCEPT ![o] = IF how = "named" THEN rsp[RspOf[o]].lines ELSE Inputs(o)]
        /\ UNCHANGED <<rsp, history>>
  BY DEF Link
<1>2. /\ phase = "building" /\ o \in Outputs(loaded) /\ link[o] = how
      /\ Inputs(o) \in Seq(File) /\ RspOf[o] \in Rsp
  BY <1>1, MoveFacts DEF Progress
<1>3. rsp[RspOf[o]].lines \in Seq(File) /\ read \in [Output -> Seq(File)]
  BY <1>2 DEF IInv, TypeOK
<1>4. read' \in [Output -> Seq(File)] /\ \A p \in Output : p # o => read'[p] = read[p]
  BY <1>1, <1>2, <1>3
<1>5. ~doubt => read'[o] = Inputs(o)
  BY <1>1, <1>2, <1>3 DEF IInv, LinkInv
<1> QED
  BY <1>1, <1>4, <1>5, QuietMoveKeeps

LEMMA FailToLinkKeeps ==
  ASSUME IInv, NEW o \in Output, FailToLink(o) PROVE IInv'
<1>1. Moves(o, "named", "failed") /\ UNCHANGED <<rsp, read, history>>
  BY DEF FailToLink
<1>2. read' \in [Output -> Seq(File)]
  BY <1>1 DEF IInv, TypeOK
<1> QED
  BY <1>1, <1>2, QuietMoveKeeps

\* What is on disk when a response file has been written.
LEMMA RspWritten ==
  ASSUME IInv, NEW r \in Rsp, NEW lines \in Seq(File),
         rsp' = [rsp EXCEPT ![r] = [time |-> now, lines |-> lines]]
  PROVE  /\ rsp'[r].lines = lines
         /\ \A other \in Rsp : other # r => rsp'[other] = rsp[other]
         /\ rsp' \in [Rsp -> [time : Time, lines : Seq(File)]]
         /\ \A any \in Rsp : rsp'[any].time <= now
<1>1. rsp \in [Rsp -> [time : Time, lines : Seq(File)]] /\ now \in Time /\ now <= now
      /\ \A any \in Rsp : rsp[any].time <= now
  BY NowFacts DEF IInv, TypeOK, ClockInv
<1> QED
  BY <1>1

\* A step that writes the response file of its link, and makes suspect whom it
\* may mislead.
LEMMA RspStepKeeps ==
  ASSUME IInv, NEW o \in Output, NEW from \in {"generating", "open"},
         NEW to \in {"open", "named"}, Moves(o, from, to), UNCHANGED read,
         NEW lines, rsp'[RspOf[o]].lines = lines,
         \A r \in Rsp : r # RspOf[o] => rsp'[r] = rsp[r],
         rsp' \in [Rsp -> [time : Time, lines : Seq(File)]],
         \A r \in Rsp : rsp'[r].time <= now,
         SuspectForRsp(o),
         to = "open" => lines = <<>>,
         to = "named" /\ ~Misleads(o, loaded) => lines = Inputs(o)
  PROVE  IInv'
<1>1. /\ phase = "building" /\ o \in Outputs(loaded) /\ loaded \in Text
      /\ RspOf[o] \in Rsp
      /\ link[o] = from /\ link'[o] = to /\ \A p \in Output : p # o => link'[p] = link[p]
      /\ UNCHANGED <<now, manifest, bin, phase, build_file, loaded>>
  <2>1. from # "idle" /\ to \in Progress \ {"idle", "due"}
    BY DEF Progress
  <2> QED
    BY <2>1, MoveFacts
<1>2. \A p \in Output : RspOf[p] \in Rsp /\ (link[p] # "idle" => p \in Outputs(loaded))
  BY InvocationsAssumption DEF IInv, TypeOK
<1>3. suspect \subseteq suspect' /\ suspect' \subseteq Manifest /\ doubt' \in BOOLEAN
  BY DEF SuspectForRsp, IInv, TypeOK
<1>4. TypeOK' /\ ClockInv' /\ BinInv'
  <2>1. read' \in [Output -> Seq(File)]
    BY DEF IInv, TypeOK
  <2>2. from # "idle" /\ to \in Progress \ {"idle", "due"}
    BY DEF Progress
  <2> QED
    BY <1>3, <2>1, <2>2, MoveKeeps
<1>5. RspInv'
  <2> SUFFICES ASSUME NEW m \in Manifest \ suspect', NEW q \in Outputs(manifest[m].text),
                      Exists(m), rsp'[RspOf[q]].time > manifest[m].time
               PROVE  rsp'[RspOf[q]].lines = Links[manifest[m].text][q] \/ link'[q] = "open"
    BY <1>1 DEF RspInv, Exists
  <2>1. q \in Output /\ RspOf[q] \in Rsp
    BY OutputFacts
  <2>2. ~Misleads(o, loaded) /\ ~Misleads(o, manifest[m].text)
    BY DEF SuspectForRsp
  <2>3. CASE RspOf[q] = RspOf[o]
    <3>1. q = o /\ Links[manifest[m].text][o] = Links[loaded][o]
      BY <2>2, <2>3 DEF Misleads
    <3> QED
      BY <3>1, <2>2, <1>1, <1>2 DEF Inputs
  <2>4. CASE RspOf[q] # RspOf[o]
    <3>1. q # o /\ rsp'[RspOf[q]] = rsp[RspOf[q]] /\ link'[q] = link[q]
      BY <2>1, <2>4, <1>1, <1>2
    <3> QED
      BY <3>1, <1>3 DEF IInv, RspInv
  <2> QED
    BY <2>3, <2>4
<1>6. OpenInv'
  <2> SUFFICES ASSUME NEW p \in Output, link'[p] = "open", ~Misleads(p, loaded)
               PROVE  rsp'[RspOf[p]].lines = <<>>
    <3>1. \A p : Misleads(p, loaded)' <=> Misleads(p, loaded)
      BY <1>1 DEF Misleads
    <3> QED
      BY <3>1 DEF OpenInv
  <2>1. CASE p = o
    BY <2>1, <1>1, <1>2
  <2>2. CASE p # o
    <3>1. link[p] = "open"
      BY <2>2, <1>1
    <3>2. RspOf[p] # RspOf[o]
      BY <2>2, <1>1, SharingMisleads
    <3>3. rsp'[RspOf[p]] = rsp[RspOf[p]]
      BY <3>2, <1>1, <1>2
    <3> QED
      BY <3>1, <3>3 DEF IInv, OpenInv
  <2> QED
    BY <2>1, <2>2
<1>7. LinkInv'
  <2> SUFFICES ASSUME ~doubt', NEW p \in Outputs(loaded)
               PROVE  /\ link'[p] \in {"idle", "due", "found"} /\ Usable(RspOf[p])' =>
                           rsp'[RspOf[p]].lines = Inputs(p)
                      /\ link'[p] = "named" /\ RspExists(RspOf[p])' =>
                           rsp'[RspOf[p]].lines = Inputs(p)
                      /\ link'[p] = "done" => read[p] = Inputs(p)
    <3>1. \A p : Inputs(p)' = Inputs(p)
      BY <1>1 DEF Inputs
    <3> QED
      BY <1>1, <3>1 DEF LinkInv
  <2>1. ~doubt /\ ~Misleads(o, loaded)
    BY DEF SuspectForRsp
  <2>2. p \in Output /\ RspOf[p] \in Rsp
    BY OutputFacts
  <2>3. CASE p = o
    BY <2>1, <2>3, <1>1, <1>2
  <2>4. CASE p # o
    <3>1. RspOf[p] # RspOf[o]
      BY <2>1, <2>4, SharingMisleads
    <3>2. rsp'[RspOf[p]] = rsp[RspOf[p]] /\ link'[p] = link[p]
      BY <3>1, <2>2, <2>4, <1>1, <1>2
    <3>3. /\ Usable(RspOf[p])' <=> Usable(RspOf[p])
          /\ RspExists(RspOf[p])' <=> RspExists(RspOf[p])
      BY <3>2, <1>1 DEF Usable, RspIsNewer, RspExists, Exists
    <3> QED
      BY <2>1, <3>2, <3>3, <1>1 DEF IInv, LinkInv
  <2> QED
    BY <2>3, <2>4
<1> QED
  BY <1>4, <1>5, <1>6, <1>7 DEF IInv

LEMMA OpenRspKeeps ==
  ASSUME IInv, NEW o \in Output, OpenRsp(o) PROVE IInv'
<1>1. <<>> \in Seq(File)
  OBVIOUS
<1>2. Moves(o, "generating", "open") /\ UNCHANGED read /\ SuspectForRsp(o)
      /\ rsp' = [rsp EXCEPT ![RspOf[o]] = [time |-> now, lines |-> <<>>]]
  BY DEF OpenRsp
<1>3. RspOf[o] \in Rsp
  BY <1>2, MoveFacts DEF Progress
<1> QED
  BY <1>1, <1>2, <1>3, RspWritten, RspStepKeeps

LEMMA WriteRspKeeps ==
  ASSUME IInv, NEW o \in Output, WriteRsp(o) PROVE IInv'
<1> DEFINE lines == Over(Inputs(o), rsp[RspOf[o]].lines)
<1>1. Moves(o, "open", "named")
  BY DEF WriteRsp
<1>2. link[o] = "open" /\ Inputs(o) \in Seq(File) /\ RspOf[o] \in Rsp
  BY <1>1, MoveFacts DEF Progress
<1>3. rsp' = [rsp EXCEPT ![RspOf[o]] = [time |-> now, lines |-> lines]]
  BY <1>2 DEF WriteRsp, IInv, TypeOK
<1>4. lines \in Seq(File)
  BY <1>2, OverType DEF IInv, TypeOK
<1>5. ~Misleads(o, loaded) => lines = Inputs(o)
  BY <1>2, OverNothing DEF IInv, OpenInv
<1> HIDE DEF lines
<1> QED
  BY <1>1, <1>2, <1>3, <1>4, <1>5, RspWritten, RspStepKeeps DEF WriteRsp

-----------------------------------------------------------------------------
(* Faults of a link, and the end of an invocation. *)

\* A response file that was cut short is a file of now; everybody is suspect.
LEMMA CutRspFacts ==
  ASSUME IInv, NEW o \in Output, link[o] = "open", CutRsp(o)
  PROVE  /\ rsp' \in [Rsp -> [time : Time, lines : Seq(File)]]
         /\ \A r \in Rsp : rsp'[r].time <= now
         /\ suspect' = Manifest
<1>1. Inputs(o) \in Seq(File) /\ RspOf[o] \in Rsp
  BY LinkFacts DEF IInv
<1>2. PICK n \in 0 .. Len(Inputs(o)) - 1 :
        rsp' = [rsp EXCEPT ![RspOf[o]] =
                  [time |-> now, lines |-> Over(SubSeq(Inputs(o), 1, n), rsp[RspOf[o]].lines)]]
  BY <1>1 DEF CutRsp, IInv, TypeOK
<1> DEFINE lines == Over(SubSeq(Inputs(o), 1, n), rsp[RspOf[o]].lines)
<1>3. rsp[RspOf[o]].lines \in Seq(File)
  BY <1>1 DEF IInv, TypeOK
<1>4. lines \in Seq(File)
  BY <1>1, <1>3, BeginningType, OverType
<1>5. rsp' = [rsp EXCEPT ![RspOf[o]] = [time |-> now, lines |-> lines]]
  BY <1>2
<1> HIDE DEF lines
<1>6. suspect' = Manifest
  BY DEF CutRsp
<1> QED
  BY <1>1, <1>4, <1>5, <1>6, RspWritten

LEMMA FullDiskAtRspKeeps ==
  ASSUME IInv, NEW o \in Output, FullDiskAtRsp(o) PROVE IInv'
<1>1. /\ Moves(o, "open", "named") /\ CutRsp(o) /\ doubt' = TRUE /\ UNCHANGED read
  BY DEF FullDiskAtRsp
<1>2. /\ phase = "building" /\ o \in Outputs(loaded) /\ link[o] = "open" /\ link'[o] = "named"
      /\ RspOf[o] \in Rsp /\ \A p \in Output : p # o => link'[p] = link[p]
      /\ \A p \in Output : link[p] # "idle" => p \in Outputs(loaded)
      /\ UNCHANGED <<now, manifest, bin, phase, build_file, loaded>>
  BY <1>1, MoveFacts DEF IInv, TypeOK, Progress
<1>3. /\ rsp' \in [Rsp -> [time : Time, lines : Seq(File)]]
      /\ \A r \in Rsp : rsp'[r].time <= now
      /\ suspect' = Manifest
  BY <1>1, <1>2, CutRspFacts
<1>4. TypeOK' /\ ClockInv' /\ BinInv'
  <2>1. read' \in [Output -> Seq(File)] /\ suspect \subseteq Manifest
    BY <1>1 DEF IInv, TypeOK
  <2> QED
    BY <1>1, <1>3, <2>1, MoveKeeps DEF Progress
<1>5. RspInv'
  BY <1>2, <1>3 DEF RspInv
<1>6. OpenInv'
  <2> SUFFICES ASSUME NEW p \in Output, link'[p] = "open", ~Misleads(p, loaded)
               PROVE  rsp'[RspOf[p]].lines = <<>>
    <3>1. \A p : Misleads(p, loaded)' <=> Misleads(p, loaded)
      BY <1>2 DEF Misleads
    <3> QED
      BY <3>1 DEF OpenInv
  <2>1. p # o /\ link[p] = "open"
    BY <1>2
  <2>2. RspOf[p] # RspOf[o] /\ RspOf[p] \in Rsp
    BY <2>1, <1>2, SharingMisleads, OutputFacts
  <2>3. rsp'[RspOf[p]] = rsp[RspOf[p]]
    BY <2>2, <1>1, <1>2 DEF CutRsp, IInv, TypeOK
  <2> QED
    BY <2>1, <2>3 DEF IInv, OpenInv
<1>7. LinkInv'
  BY <1>1 DEF LinkInv
<1> QED
  BY <1>4, <1>5, <1>6, <1>7 DEF IInv

\* Between invocations nothing is loaded and no link is on its way.
LEMMA EndsKeeps ==
  ASSUME IInv, Ends,
         rsp' \in [Rsp -> [time : Time, lines : Seq(File)]],
         \A r \in Rsp : rsp'[r].time <= now,
         bin'.time \in Time /\ bin'.time <= now /\ bin'.text \in Text,
         bin'.size \in 0 .. SnapshotSize(bin'.text),
         suspect' \subseteq Manifest, BinInv', RspInv'
  PROVE  IInv'
<1>1. TypeOK'
  <2>1. bin'.size \in 0 .. HeaderSize + BodySize[bin'.text] + StringsSize[bin'.text]
    BY DEF SnapshotSize
  <2>2. link' \in [Output -> Progress]
        /\ read' \in [Output -> Seq(File)] /\ \A o \in Output : link'[o] = "idle"
    BY DEF Ends, Idle, NothingRead, Progress
  <2>3. phase' = "idle" /\ build_file' = NoFile /\ loaded' = NoText /\ doubt' = FALSE
        /\ now' = now /\ manifest' = manifest
    BY DEF Ends
  <2> QED
    BY <2>1, <2>2, <2>3 DEF IInv, TypeOK
<1>2. ClockInv'
  BY DEF IInv, ClockInv, Ends
<1>3. OpenInv' /\ LinkInv'
  BY DEF OpenInv, LinkInv, Ends, Idle
<1> QED
  BY <1>1, <1>2, <1>3 DEF IInv

\* An end outside of a write leaves the files as they are.
LEMMA QuietEndKeeps ==
  ASSUME IInv, Ends, phase # "writing", \A o \in Output : link[o] # "open",
         UNCHANGED <<derived, suspect>>
  PROVE  IInv'
<1>1. bin' = bin /\ rsp' = rsp /\ suspect' = suspect /\ manifest' = manifest
  BY DEF derived, Ends
<1>2. BinInv'
  BY <1>1 DEF IInv, BinInv, BinIsNewer, Exists
<1>3. RspInv'
  BY <1>1, OutputFacts DEF IInv, RspInv, Exists
<1> QED
  BY <1>1, <1>2, <1>3, EndsKeeps DEF IInv, TypeOK, ClockInv, SnapshotSize

LEMMA KillInWriteKeeps == ASSUME IInv, KillInWrite PROVE IInv'
<1>1. CASE phase = "writing" /\ CutBin /\ UNCHANGED rsp
  <2>1. loaded \in Text
    BY <1>1 DEF IInv, TypeOK
  <2>2. PICK size \in 0 .. SnapshotSize(loaded) - 1 :
          bin' = [time |-> now, text |-> loaded, size |-> size]
    BY <1>1 DEF CutBin
  <2>3. bin'.size \in 0 .. SnapshotSize(bin'.text)
    BY <2>1, <2>2, SizeFacts
  <2>4. suspect' = Manifest
    BY <1>1 DEF CutBin
  <2>5. BinInv' /\ RspInv'
    BY <2>4 DEF BinInv, RspInv, KillInWrite, Ends
  <2> QED
    BY <1>1, <2>1, <2>2, <2>3, <2>4, <2>5, NowFacts, EndsKeeps
      DEF IInv, TypeOK, ClockInv, KillInWrite
<1>2. CASE \E o \in Output : phase = "building" /\ link[o] = "open" /\ CutRsp(o) /\ UNCHANGED bin
  <2>1. PICK o \in Output : link[o] = "open" /\ CutRsp(o) /\ UNCHANGED bin
    BY <1>2
  <2>2. /\ rsp' \in [Rsp -> [time : Time, lines : Seq(File)]]
        /\ \A r \in Rsp : rsp'[r].time <= now
        /\ suspect' = Manifest
    BY <2>1, CutRspFacts
  <2>3. BinInv' /\ RspInv'
    BY <2>2 DEF BinInv, RspInv, KillInWrite, Ends
  <2> QED
    BY <2>1, <2>2, <2>3, EndsKeeps DEF IInv, TypeOK, ClockInv, SnapshotSize, KillInWrite
<1> QED
  BY <1>1, <1>2 DEF KillInWrite

-----------------------------------------------------------------------------
(* The invariant always holds, and what follows from it. *)

LEMMA StepKeeps == ASSUME IInv, [Next]_vars PROVE IInv'
<1>1. CASE UNCHANGED vars
  BY <1>1 DEF IInv, TypeOK, ClockInv, BinInv, BinIsNewer, RspInv, OpenInv, Misleads, LinkInv,
     Usable, RspIsNewer, RspExists, Exists, Inputs, vars, derived, process, history
<1>2. CASE Tick
  BY <1>2, TickKeeps
<1>3. ASSUME NEW m \in Manifest, NEW t \in Text, Edit(m, t) PROVE IInv'
  BY <1>3, EditKeeps
<1>4. ASSUME NEW m \in Manifest, Start(m) PROVE IInv'
  BY <1>4, StartKeeps
<1>5. CASE OpenBin
  BY <1>5, OpenBinKeeps
<1>6. CASE NoBin
  BY <1>6, NoBinKeeps
<1>7. CASE WriteBin
  BY <1>7, WriteBinKeeps
<1>8. CASE FullDiskAtBin
  BY <1>8, FullDiskAtBinKeeps
<1>9. ASSUME NEW o \in Output, ChooseInputs(o) PROVE IInv'
  BY <1>9, ChooseInputsKeeps
<1>10. ASSUME NEW o \in Output, OpenRsp(o) PROVE IInv'
  BY <1>10, OpenRspKeeps
<1>11. ASSUME NEW o \in Output, WriteRsp(o) PROVE IInv'
  BY <1>11, WriteRspKeeps
<1>12. ASSUME NEW o \in Output, FullDiskAtRsp(o) PROVE IInv'
  BY <1>12, FullDiskAtRspKeeps
<1>13. ASSUME NEW o \in Output, Link(o) PROVE IInv'
  BY <1>13, LinkKeeps
<1>14. CASE Return
  <2>1. phase # "writing" /\ \A o \in Output : link[o] # "open"
    BY <1>14 DEF Return
  <2> QED
    BY <1>14, <2>1, QuietEndKeeps DEF Return
<1>15. CASE Kill
  <2>1. phase # "writing" /\ \A o \in Output : link[o] # "open"
    BY <1>15 DEF Kill
  <2> QED
    BY <1>15, <2>1, QuietEndKeeps DEF Kill
<1>16. CASE KillInWrite
  BY <1>16, KillInWriteKeeps
<1>17. ASSUME NEW m \in Manifest, Remove(m) PROVE IInv'
  BY <1>17, RemoveKeeps
<1>18. ASSUME NEW r \in Rsp, RemoveRsp(r) PROVE IInv'
  BY <1>18, RemoveRspKeeps
<1>19. ASSUME NEW o \in Output, AskForRsp(o) PROVE IInv'
  BY <1>19, AskForRspKeeps
<1>20. ASSUME NEW o \in Output, FailToLink(o) PROVE IInv'
  BY <1>20, FailToLinkKeeps
<1> QED
  BY <1>1, <1>2, <1>3, <1>4, <1>5, <1>6, <1>7, <1>8, <1>9, <1>10, <1>11, <1>12, <1>13,
     <1>14, <1>15, <1>16, <1>17, <1>18, <1>19, <1>20 DEF Next

LEMMA Always == Spec => []IInv
<1>1. Init => IInv
  BY Initially
<1>2. IInv /\ [Next]_vars => IInv'
  BY StepKeeps
<1> QED
  BY <1>1, <1>2, PTL DEF Spec

\* The types hold for any manifests, links and sizes; in particular no link
\* step is on its way that is not in the graph.
THEOREM InvocationsTypeCorrect == Spec => []TypeOK
<1>1. IInv => TypeOK
  BY DEF IInv
<1> QED
  BY <1>1, Always, PTL

\* An invocation for a manifest that is not suspect works on its text
\* (src/src/parser.cpp, parse), whatever snapshots were written, cut short or
\* outdated before.
THEOREM SnapshotsAreTrusted == Spec => NamedManifestLoaded
<1>1. IInv /\ [Next]_vars =>
        [\A m \in Manifest : Start(m) /\ m \notin suspect => loaded' = manifest[m].text]_vars
  BY StartLoads
<1> QED
  BY <1>1, Always, PTL DEF Spec, NamedManifestLoaded

\* A link that nothing misled has read its own inputs, all of them and in
\* their order (src/src/executor.cpp, build_command_args).
THEOREM ResponseFilesAreTrusted == Spec => []LinkReadsItsInputs
<1>1. IInv => LinkReadsItsInputs
  <2> SUFFICES ASSUME IInv, NEW o \in Output, link[o] = "done", ~doubt
               PROVE  read[o] = Inputs(o)
    BY DEF LinkReadsItsInputs
  <2>1. phase = "building" /\ o \in Outputs(loaded)
    BY LinkFacts DEF IInv
  <2> QED
    BY <2>1 DEF IInv, LinkInv
<1> QED
  BY <1>1, Always, PTL

=============================================================================
