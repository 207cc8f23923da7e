--------------------------- MODULE GpuPassthrough ---------------------------
(***************************************************************************)
(* Giving the GPU to a virtual machine and taking it back                  *)
(* (scripts/gpu_detach.sh, scripts/gpu_attach.sh), command by command,     *)
(* because any of them can fail and the script can be interrupted between  *)
(* any two.  The GPU and its audio function each have a driver, and a      *)
(* driver_override, in sysfs; "none" is a device without a driver.         *)
(***************************************************************************)
EXTENDS Integers, Sequences

CONSTANTS HasAudio,   \* whether the audio function is there
          MaxRuns     \* bound: how often a script is started

ASSUME GpuAssumption == HasAudio \in BOOLEAN /\ MaxRuns \in Nat

VARIABLES driver,    \* the driver a device is bound to
          override,  \* its driver_override: "none" or "vfio-pci"
          conf,      \* the lines of /var/lib/spirit/gpu_restore.conf
          tmpConf,   \* the lines of /tmp/spirit_gpu_restore.conf, what attach reads
          script,    \* where the running script is, or how the last one ended
          current,   \* CURRENT_GPU_DRIVER and CURRENT_AUDIO_DRIVER
          runs       \* how often a script was started

vars == <<driver, override, conf, tmpConf, script, current, runs>>

Devices == {"gpu", "audio"}
Present == IF HasAudio THEN Devices ELSE {"gpu"}

\* What drives a device on the host: nothing drives an audio function that is
\* not there, and get_driver says "none" of it.
HostDriver(d) ==
  CASE d = "gpu" -> "host-gpu" [] d \in Present -> "host-audio" [] OTHER -> "none"

NoConf == << >>
Line(d, drv) == [device |-> d, driver |-> drv]

\* The ways a script ends: the last message it prints.
Ends == {"idle", "ready", "already", "not bound", "broken off",
         "no configuration", "restored"}

Init ==
  /\ driver = [d \in Devices |-> HostDriver(d)]
  /\ override = [d \in Devices |-> "none"]
  /\ conf = NoConf
  /\ tmpConf = NoConf
  /\ script = "idle"
  /\ current = driver
  /\ runs = 0

Goto(place) == script' = place

Started ==
  /\ script \in Ends
  /\ runs < MaxRuns
  /\ runs' = runs + 1

-----------------------------------------------------------------------------
(* gpu_detach.sh *)

\* A mutant: a GPU that vfio-pci has already is detached all the same.
Detach_NotAskedFirst ==
  /\ Started
  /\ current' = driver
  /\ Goto("save")
  /\ UNCHANGED <<driver, override, conf, tmpConf>>

\* The drivers are read; nothing is done for a GPU that vfio-pci has already.
Detach ==
  /\ Started
  /\ current' = driver
  /\ Goto(IF driver["gpu"] = "vfio-pci" THEN "already" ELSE "save")
  /\ UNCHANGED <<driver, override, conf, tmpConf>>

\* "Save driver info for restore": the first echo makes the file anew.
SaveGpu ==
  /\ script = "save"
  /\ conf' = << Line("gpu", current["gpu"]) >>
  /\ Goto("save audio")
  /\ UNCHANGED <<driver, override, tmpConf, current, runs>>

\* A mutant: the second echo overwrites the file.
SaveAudio_Overwritten ==
  /\ script = "save audio"
  /\ conf' = << Line("audio", current["audio"]) >>
  /\ Goto("load")
  /\ UNCHANGED <<driver, override, tmpConf, current, runs>>

\* A mutant: the driver of the GPU is saved for the audio function as well.
SaveAudio_GpuDriver ==
  /\ script = "save audio"
  /\ conf' = Append(conf, Line("audio", current["gpu"]))
  /\ Goto("load")
  /\ UNCHANGED <<driver, override, tmpConf, current, runs>>

\* The second echo adds to it.
SaveAudio ==
  /\ script = "save audio"
  /\ conf' = Append(conf, Line("audio", current["audio"]))
  /\ Goto("load")
  /\ UNCHANGED <<driver, override, tmpConf, current, runs>>

\* modprobe, three times
LoadModules ==
  /\ script = "load"
  /\ Goto("unbind gpu")
  /\ UNCHANGED <<driver, override, conf, tmpConf, current, runs>>

\* A device is unbound from its driver, if it has one; an unbind that fails is
\* passed over.
Unbind(d, place, next) ==
  /\ script = place
  /\ driver' = driver \/ (current[d] # "none" /\ driver' = [driver EXCEPT ![d] = "none"])
  /\ Goto(next)
  /\ UNCHANGED <<override, conf, tmpConf, current, runs>>

UnbindGpu == Unbind("gpu", "unbind gpu", "unbind audio")
UnbindAudio == Unbind("audio", "unbind audio", "override")

\* The ids are read and driver_override is set.
Override ==
  /\ script = "override"
  /\ override' = [override EXCEPT !["gpu"] = "vfio-pci"]
  /\ Goto("bind gpu")
  /\ UNCHANGED <<driver, conf, tmpConf, current, runs>>

\* A device without a driver is bound to vfio-pci; one that has a driver is not.
\* The new_id fallback has the same two outcomes.
Binds(d) ==
  \/ UNCHANGED driver
  \/ /\ driver[d] = "none" /\ override'[d] = "vfio-pci"
     /\ driver' = [driver EXCEPT ![d] = "vfio-pci"]

BindGpu ==
  /\ script = "bind gpu"
  /\ UNCHANGED override
  /\ Binds("gpu")
  /\ Goto("bind audio")
  /\ UNCHANGED <<conf, tmpConf, current, runs>>

BindAudio ==
  /\ script = "bind audio"
  /\ IF HasAudio
     THEN /\ \/ UNCHANGED override
             \/ override' = [override EXCEPT !["audio"] = "vfio-pci"]
          /\ Binds("audio")
     ELSE UNCHANGED <<driver, override>>
  /\ Goto("verify")
  /\ UNCHANGED <<conf, tmpConf, current, runs>>

\* "Verify binding"
Verify ==
  /\ script = "verify"
  /\ Goto(IF driver["gpu"] = "vfio-pci" THEN "ready" ELSE "not bound")
  /\ UNCHANGED <<driver, override, conf, tmpConf, current, runs>>

-----------------------------------------------------------------------------
(* gpu_attach.sh *)

Attach ==
  /\ Started
  /\ Goto(IF tmpConf = NoConf THEN "no configuration" ELSE "restore")
  /\ UNCHANGED <<driver, override, conf, tmpConf, current>>

\* The lines are read with IFS=':', and a PCI address has colons in it: of
\* 0000:01:00.0:driver the address is taken to be 0000 and the driver the rest.
\* There is no such device and no such driver: each command on them fails and is
\* passed over, and the rescan of the bus finds no new device.
Restore ==
  /\ script = "restore"
  /\ tmpConf' = NoConf
  /\ Goto("restored")
  /\ UNCHANGED <<driver, override, conf, current, runs>>

\* Nothing in the system writes the file that attach reads; whoever reads "No
\* restore configuration found at ..." can copy the one that detach wrote.
CopyConf ==
  /\ script = "no configuration"
  /\ conf # NoConf
  /\ tmpConf' = conf
  /\ UNCHANGED <<driver, override, conf, script, current, runs>>

-----------------------------------------------------------------------------

\* A command fails under "set -e", or the script is interrupted.
BrokenOff ==
  /\ script \notin Ends
  /\ Goto("broken off")
  /\ UNCHANGED <<driver, override, conf, tmpConf, current, runs>>

Next ==
  \/ Detach \/ SaveGpu \/ SaveAudio \/ LoadModules \/ UnbindGpu \/ UnbindAudio \/ Override
  \/ BindGpu \/ BindAudio \/ Verify
  \/ Attach \/ Restore \/ CopyConf
  \/ BrokenOff

Spec == Init /\ [][Next]_vars

-----------------------------------------------------------------------------
(* Properties *)

DriversOf(d) == {"none", "vfio-pci", HostDriver(d)}

TypeOK ==
  /\ \A d \in Devices : driver[d] \in DriversOf(d) /\ current[d] \in DriversOf(d)
  /\ override \in [Devices -> {"none", "vfio-pci"}]
  /\ \A c \in {conf, tmpConf} : \A i \in DOMAIN c :
       c[i].device \in Devices /\ c[i].driver \in DriversOf(c[i].device)
  /\ runs \in 0 .. MaxRuns

\* Once vfio-pci has the GPU, no script that is started, and none that is still on its
\* way, touches what was saved: the file is written before a device is unbound, and
\* a run that finds the GPU with vfio-pci writes nothing (gpu_detach.sh:54-63).  What
\* a second detach would save then is "vfio-pci", in the place of the host's driver.
BoundGpuKeepsInfo == [][driver["gpu"] = "vfio-pci" => UNCHANGED conf]_vars

\* Wherever the latest detach stopped, and however often one ran before: a device
\* that it found with its host driver and that has lost it is in the file with
\* that driver.
LatestDetachSaved ==
  \A d \in Present : current[d] = HostDriver(d) /\ driver[d] # HostDriver(d) =>
    \E i \in DOMAIN conf : conf[i] = Line(d, HostDriver(d))

-----------------------------------------------------------------------------
(* What a comment says *)

\* "Save driver info for restore" (gpu_detach.sh:60): as long as a device is away
\* from its host driver, the file says which driver that is.
RestoreInfoKept ==
  \A d \in Present : driver[d] # HostDriver(d) =>
    \E i \in DOMAIN conf : conf[i] = Line(d, HostDriver(d))
=============================================================================
