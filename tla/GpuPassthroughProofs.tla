------------------------ MODULE GpuPassthroughProofs ------------------------
(***************************************************************************)
(* Proofs, however often the scripts are started and wherever they stop,   *)
(* of what gpu_detach.sh promises.                                         *)
(***************************************************************************)
EXTENDS GpuPassthrough, SequenceTheorems, TLAPS

\* The file that detach writes for the drivers drv: its first line, and both
FirstLine(drv) == << Line("gpu", drv["gpu"]) >>
Lines(drv) == << Line("gpu", drv["gpu"]), Line("audio", drv["audio"]) >>

DriverMaps == {f \in [Devices -> {"none", "vfio-pci", "host-gpu", "host-audio"}] :
                 \A d \in Devices : f[d] \in DriversOf(d)}

Files == {NoConf} \cup {FirstLine(f) : f \in DriverMaps} \cup {Lines(f) : f \in DriverMaps}

Typed ==
  /\ driver \in DriverMaps /\ current \in DriverMaps
  /\ override \in [Devices -> {"none", "vfio-pci"}]
  /\ conf \in Files /\ tmpConf \in Files
  /\ runs \in 0 .. MaxRuns

\* Where a script writes no part of the file, nor has yet to
Rebinding == script \notin Ends \cup {"save", "save audio", "restore"}

\* What LatestDetachSaved rests on: a driver changes only after both lines of what
\* Detach read are written, and from then on the file stays as it is until the next
\* Detach.
SavedFirst ==
  /\ script \in {"save", "save audio"} => driver = current /\ current["gpu"] # "vfio-pci"
  /\ script = "save audio" => conf = FirstLine(current)
  /\ Rebinding => conf = Lines(current)
  /\ driver = current \/ conf = Lines(current)

IInv == Typed /\ SavedFirst

-----------------------------------------------------------------------------

\* What the types mean for a file, line by line
LEMMA FileLines ==
  ASSUME NEW c \in Files, NEW i \in DOMAIN c
  PROVE  c[i].device \in Devices /\ c[i].driver \in DriversOf(c[i].device)
  <1>1. c # NoConf
    BY DEF NoConf
  <1>2. PICK f \in DriverMaps : c = FirstLine(f) \/ c = Lines(f)
    BY <1>1 DEF Files
  <1>3. CASE c = FirstLine(f)
    <2>1. i = 1
      BY <1>3 DEF FirstLine
    <2> QED BY <1>2, <1>3, <2>1 DEF FirstLine, Line, DriverMaps, Devices
  <1>4. CASE c = Lines(f)
    <2>1. i \in {1, 2}
      BY <1>4 DEF Lines
    <2> QED BY <1>2, <1>4, <2>1 DEF Lines, Line, DriverMaps, Devices
  <1> QED BY <1>2, <1>3, <1>4

\* The invariant is what the properties say, and more.
LEMMA IInvImplies == IInv => TypeOK /\ LatestDetachSaved
  <1> SUFFICES ASSUME IInv PROVE TypeOK /\ LatestDetachSaved
    OBVIOUS
  <1>1. TypeOK
    BY FileLines DEF IInv, Typed, TypeOK, DriverMaps
  <1>2. ASSUME NEW d \in Present, current[d] = HostDriver(d), driver[d] # HostDriver(d)
        PROVE  \E i \in DOMAIN conf : conf[i] = Line(d, HostDriver(d))
    <2>1. conf = Lines(current)
      BY <1>2 DEF IInv, SavedFirst
    <2>2. d = "gpu" \/ d = "audio"
      BY DEF Present, Devices
    <2>3. CASE d = "gpu"
      <3>1. 1 \in DOMAIN conf /\ conf[1] = Line(d, HostDriver(d))
        BY <1>2, <2>1, <2>3 DEF Lines
      <3> QED BY <3>1
    <2>4. CASE d = "audio"
      <3>1. 2 \in DOMAIN conf /\ conf[2] = Line(d, HostDriver(d))
        BY <1>2, <2>1, <2>4 DEF Lines
      <3> QED BY <3>1
    <2> QED BY <2>2, <2>3, <2>4
  <1> QED BY <1>1, <1>2 DEF LatestDetachSaved

\* The second echo completes the file.
LEMMA SecondLine ==
  ASSUME NEW f
  PROVE  Append(FirstLine(f), Line("audio", f["audio"])) = Lines(f)
  <1> DEFINE x == Line("gpu", f["gpu"])
             y == Line("audio", f["audio"])
             S == {x, y}
  <1>1. <<x>> \in Seq(S) /\ Len(<<x>>) = 1 /\ <<x>>[1] = x
    OBVIOUS
  <1>2. <<x, y>> \in Seq(S) /\ Len(<<x, y>>) = 2 /\ <<x, y>>[1] = x /\ <<x, y>>[2] = y
    OBVIOUS
  <1> HIDE DEF x, y
  <1>3. /\ Append(<<x>>, y) \in Seq(S) /\ Len(Append(<<x>>, y)) = 2
        /\ Append(<<x>>, y)[1] = x /\ Append(<<x>>, y)[2] = y
    BY <1>1, AppendProperties
  <1>4. \A i \in 1 .. Len(Append(<<x>>, y)) : Append(<<x>>, y)[i] = <<x, y>>[i]
    <2>1. \A i \in 1 .. Len(Append(<<x>>, y)) : i = 1 \/ i = 2
      BY <1>3
    <2> QED BY <2>1, <1>2, <1>3
  <1>5. Append(<<x>>, y) = <<x, y>>
    <2>1. Len(Append(<<x>>, y)) = Len(<<x, y>>)
      BY <1>2, <1>3
    <2> QED BY <1>2, <1>3, <1>4, <2>1, SeqEqual
  <1> QED BY <1>5 DEF FirstLine, Lines, x, y

\* A script starts only while there are starts left.
LEMMA StartsAreCounted ==
  ASSUME IInv, Started
  PROVE  runs' \in 0 .. MaxRuns
  BY GpuAssumption DEF IInv, Typed, Started

\* A device that loses its driver, or gets vfio-pci, has a driver that it can have.
LEMMA Rebound ==
  ASSUME NEW f \in DriverMaps, NEW d \in Devices, NEW drv \in {"none", "vfio-pci"}
  PROVE  [f EXCEPT ![d] = drv] \in DriverMaps
  BY DEF DriverMaps, DriversOf

\* The steps between Save and the end of gpu_detach.sh, which change no file
LEMMA RebindingKeeps ==
  ASSUME IInv, UNCHANGED <<conf, tmpConf, current, runs>>,
         Rebinding, script' \notin {"save", "save audio", "restore"},
         \/ driver' = driver
         \/ \E d \in Devices, drv \in {"none", "vfio-pci"} :
              driver' = [driver EXCEPT ![d] = drv],
         override' \in [Devices -> {"none", "vfio-pci"}]
  PROVE  IInv'
  <1>1. driver' \in DriverMaps
    <2>1. driver \in DriverMaps
      BY DEF IInv, Typed
    <2>2. CASE driver' = driver
      BY <2>1, <2>2
    <2>3. CASE \E d \in Devices, drv \in {"none", "vfio-pci"} :
                 driver' = [driver EXCEPT ![d] = drv]
      BY <2>1, <2>3, Rebound
    <2> QED BY <2>2, <2>3
  <1>2. Typed'
    BY <1>1 DEF IInv, Typed
  <1>3. conf' = Lines(current)'
    BY DEF IInv, SavedFirst, Lines
  <1> QED BY <1>2, <1>3 DEF IInv, SavedFirst, Rebinding

\* The steps of gpu_detach.sh before Save and of gpu_attach.sh, and an end forced upon
\* either: no device is touched.
LEMMA QuietKeeps ==
  ASSUME IInv, UNCHANGED <<driver, override, conf>>,
         tmpConf' \in Files, runs' \in 0 .. MaxRuns,
         \/ current' = current /\ script' \in Ends \cup {"restore"}
         \/ current' = current /\ script' = script
         \/ /\ current' = driver
            /\ script' = (IF driver["gpu"] = "vfio-pci" THEN "already" ELSE "save")
  PROVE  IInv'
  <1>1. Typed'
    BY DEF IInv, Typed
  <1>2. SavedFirst'
    BY DEF IInv, SavedFirst, Rebinding, FirstLine, Lines, Ends
  <1> QED BY <1>1, <1>2 DEF IInv

-----------------------------------------------------------------------------
(* The theorems *)

\* The invariant holds however often the scripts are run, complete or not.
THEOREM InductiveInvariant == Spec => []IInv
  <1>1. Init => IInv
    <2> SUFFICES ASSUME Init PROVE IInv
      OBVIOUS
    <2>1. driver \in DriverMaps
      BY DEF Init, DriverMaps, DriversOf, HostDriver, Devices, Present
    <2>2. Typed
      BY <2>1, GpuAssumption DEF Init, Typed, Files
    <2> QED BY <2>2 DEF Init, IInv, SavedFirst, Rebinding, Ends
  <1>2. IInv /\ [Next]_vars => IInv'
    <2> SUFFICES ASSUME IInv, [Next]_vars PROVE IInv'
      OBVIOUS
    <2>1. CASE Detach
      <3>1. runs' \in 0 .. MaxRuns
        BY <2>1, StartsAreCounted DEF Detach
      <3> QED BY <2>1, <3>1, QuietKeeps DEF Detach, Goto, IInv, Typed
    <2>2. CASE SaveGpu
      <3>1. conf' = FirstLine(current) /\ FirstLine(current)' = FirstLine(current)
        BY <2>2 DEF SaveGpu, FirstLine
      <3>2. Typed'
        BY <2>2, <3>1 DEF SaveGpu, IInv, Typed, Files
      <3> QED BY <2>2, <3>1, <3>2
              DEF SaveGpu, Goto, IInv, SavedFirst, Rebinding
    <2>3. CASE SaveAudio
      <3>1. conf' = Lines(current) /\ Lines(current)' = Lines(current)
        <4>1. conf = FirstLine(current)
          BY <2>3 DEF SaveAudio, IInv, SavedFirst
        <4> QED BY <2>3, <4>1, SecondLine DEF SaveAudio, Lines
      <3>2. Typed'
        BY <2>3, <3>1 DEF SaveAudio, IInv, Typed, Files
      <3> QED BY <2>3, <3>1, <3>2
              DEF SaveAudio, Goto, IInv, SavedFirst
    <2>4. CASE LoadModules \/ Override \/ Verify
      BY <2>4, RebindingKeeps
      DEF LoadModules, Override, Verify, Goto, Rebinding, Ends, IInv, Typed, Devices
    <2>5. CASE UnbindGpu \/ UnbindAudio
      BY <2>5, RebindingKeeps
      DEF UnbindGpu, UnbindAudio, Unbind, Goto, Rebinding, Ends, IInv, Typed, Devices
    <2>6. CASE BindGpu \/ BindAudio
      BY <2>6, RebindingKeeps
      DEF BindGpu, BindAudio, Binds, Goto, Rebinding, Ends, IInv, Typed, Devices
    <2>7. CASE Attach
      <3>1. runs' \in 0 .. MaxRuns
        BY <2>7, StartsAreCounted DEF Attach
      <3>2. script' \in {"no configuration", "restore"} /\ tmpConf' \in Files
            /\ UNCHANGED <<driver, override, conf, current>>
        BY <2>7 DEF Attach, Goto, IInv, Typed
      <3> QED BY <3>1, <3>2, QuietKeeps DEF Ends
    <2>8. CASE Restore \/ CopyConf \/ BrokenOff
      BY <2>8, QuietKeeps
      DEF Restore, CopyConf, BrokenOff, Goto, Ends, Files, IInv, Typed
    <2>9. CASE UNCHANGED vars
      BY <2>9, QuietKeeps DEF vars, IInv, Typed
    <2> QED BY <2>1, <2>2, <2>3, <2>4, <2>5, <2>6, <2>7, <2>8, <2>9 DEF Next
  <1> QED BY <1>1, <1>2, PTL DEF Spec

\* Type correctness
THEOREM TypeCorrect == Spec => []TypeOK
  BY InductiveInvariant, IInvImplies, PTL

\* A GPU that vfio-pci has keeps its line in the restore file, whatever is started
\* then: the two lines are written (gpu_detach.sh:62-63) only by a run that found
\* another driver and has not yet unbound it.
THEOREM RerunsKeepInfo == Spec => BoundGpuKeepsInfo
  <1>1. IInv /\ [Next]_vars => [driver["gpu"] = "vfio-pci" => UNCHANGED conf]_vars
    <2> SUFFICES ASSUME IInv, [Next]_vars, driver["gpu"] = "vfio-pci"
                 PROVE  UNCHANGED conf
      OBVIOUS
    <2>1. script \notin {"save", "save audio"}
      BY DEF IInv, SavedFirst
    <2>2. ~ SaveGpu /\ ~ SaveAudio
      BY <2>1 DEF SaveGpu, SaveAudio
    <2> QED
      BY <2>2 DEF Next, Detach, LoadModules, UnbindGpu, UnbindAudio, Unbind, Override,
                  BindGpu, BindAudio, Verify, Attach, Restore, CopyConf, BrokenOff, vars
  <1> QED BY <1>1, InductiveInvariant, PTL DEF Spec, BoundGpuKeepsInfo

\* What a run of gpu_detach.sh takes away it has written down before
\* (gpu_detach.sh:60-63).
THEOREM DetachSaves == Spec => []LatestDetachSaved
  BY InductiveInvariant, IInvImplies, PTL
=============================================================================
