------------------------------ MODULE Packages ------------------------------
(***************************************************************************)
(* Installing a SIEM agent in containers, at once, with packages from the  *)
(* cache of the host.                                                      *)
(*                                                                         *)
(* The installs of a deployment run in worker processes, or in threads of  *)
(* the server. The cache has a lock, which the threads of one process      *)
(* share; a process that is forked has a copy of its own, in the state it  *)
(* was in.                                                                 *)
(***************************************************************************)
EXTENDS Integers, FiniteSets

CONSTANTS
    ServerThreads,      \* installs by threads of the server
    WorkerProcesses     \* installs by processes forked by the server

VARIABLES
    siem,       \* whose agent is installed
    package,    \* its file in the cache
    latest,     \* the download that opened the file last
    cacheLock,  \* _cache_lock of each process
    install,    \* where an install is
    inside      \* the package a container was given for the script

packageVars == <<siem, package, latest, cacheLock, install, inside>>

Siems == {"wazuh", "elastic", "utmstack", "ossec"}
Installs == ServerThreads \cup WorkerProcesses
Process(i) == IF i \in ServerThreads THEN "server" ELSE i

Unlocked == "unlocked"
Inherited == "held by a thread that is not there"
NotOpened == "nobody"

\* What a file holds: nothing, less than 1000 bytes, more than that but not all, or all.
Contents == {"empty", "tiny", "part", "whole"}
Missing == "missing"
NotCopied == "none"

Waiting == {"lock", "look", "open", "download", "cached", "copy", "script"}

PackagesTypeOK ==
    /\ siem \in Siems
    /\ package \in Contents \cup {Missing}
    /\ latest \in Installs \cup {NotOpened}
    /\ cacheLock \in [{"server"} \cup WorkerProcesses -> Installs \cup {Unlocked, Inherited}]
    /\ install \in [Installs -> Waiting \cup {"none", "installed", "failed"}]
    /\ inside \in [Installs -> Contents \cup {NotCopied}]

IsAt(i, from) == install[i] = from
GoesTo(i, to) == install' = [install EXCEPT ![i] = to]
Unlock(i) == cacheLock' = [cacheLock EXCEPT ![Process(i)] = Unlocked]

\* The script downloads the package in the container.
FallsBack(i) == GoesTo(i, "script")

-----------------------------------------------------------------------------
\* A process is forked, or goes on with the next container.
InstallBegins(i) ==
    /\ install[i] \notin Waiting
    /\ GoesTo(i, IF siem = "ossec" THEN "script" ELSE "lock")
    /\ \/ UNCHANGED cacheLock
       \/ /\ i \in WorkerProcesses
          /\ cacheLock' = [cacheLock EXCEPT ![i] = IF cacheLock["server"] = Unlocked THEN Unlocked ELSE Inherited]
    /\ UNCHANGED <<siem, package, latest, inside>>

-----------------------------------------------------------------------------
(* ensure_cached *)

TakeLock(i) ==
    /\ IsAt(i, "lock") /\ cacheLock[Process(i)] = Unlocked
    /\ cacheLock' = [cacheLock EXCEPT ![Process(i)] = i]
    /\ GoesTo(i, "look")
    /\ UNCHANGED <<siem, package, latest, inside>>

\* A file that is not empty is a hit.
Look(i) ==
    /\ IsAt(i, "look")
    /\ IF package \in {"tiny", "part", "whole"}
       THEN GoesTo(i, "cached") /\ Unlock(i)
       ELSE GoesTo(i, "open") /\ UNCHANGED cacheLock
    /\ UNCHANGED <<siem, package, latest, inside>>

\* wget -O empties the file, and fills it from the beginning.
OpenFile(i) ==
    /\ IsAt(i, "open")
    /\ package' = "empty" /\ latest' = i
    /\ GoesTo(i, "download")
    /\ UNCHANGED <<siem, cacheLock, inside>>

Downloads(i) ==
    /\ IsAt(i, "download") /\ latest = i
    /\ package' = IF package = "empty" THEN "tiny" ELSE "part"
    /\ package' # package
    /\ UNCHANGED <<siem, latest, cacheLock, install, inside>>

\* What was asked for, or a page that says why not. Of a file that another download has
\* emptied since, the beginning is missing.
Downloaded(i) ==
    /\ IsAt(i, "download")
    /\ IF latest = i THEN package' \in {"whole", "tiny"} ELSE UNCHANGED package
    /\ IF package' = Missing THEN FallsBack(i) ELSE GoesTo(i, "cached")
    /\ Unlock(i)
    /\ UNCHANGED <<siem, latest, inside>>

\* Mutant of DownloadFails: the lock is not given back.
DownloadFailsLocked(i) ==
    /\ IsAt(i, "download")
    /\ FallsBack(i)
    /\ UNCHANGED <<siem, package, latest, cacheLock, inside>>

\* Refused, or over its time and killed: what there is of the file stays.
DownloadFails(i) ==
    /\ IsAt(i, "download")
    /\ FallsBack(i) /\ Unlock(i)
    /\ UNCHANGED <<siem, package, latest, inside>>

EnsureCached(i) ==
    TakeLock(i) \/ Look(i) \/ OpenFile(i) \/ Downloads(i) \/ Downloaded(i) \/ DownloadFails(i)

-----------------------------------------------------------------------------
(* The installers, with what they do before and after. *)

UsesFile(i) ==
    /\ IsAt(i, "cached")
    /\ GoesTo(i, "copy")
    /\ UNCHANGED <<siem, package, latest, cacheLock, inside>>

\* A file that is there is read whole and piped into the container, if that works.
CopyToContainer(i) ==
    /\ IsAt(i, "copy")
    /\ GoesTo(i, "script")
    /\ inside' \in {inside} \cup (IF package = Missing THEN {} ELSE {[inside EXCEPT ![i] = package]})
    /\ UNCHANGED <<siem, package, latest, cacheLock>>

\* dpkg refuses a package that is cut off, and an agent that is does not run; the
\* container may not reach the network, and every command has a timeout.
RunScript(i) ==
    /\ IsAt(i, "script")
    /\ \/ inside[i] \in {"whole", NotCopied} /\ GoesTo(i, "installed")
       \/ GoesTo(i, "failed")
    /\ inside' = [inside EXCEPT ![i] = NotCopied]
    /\ UNCHANGED <<siem, package, latest, cacheLock>>

InstallWazuh(i) == siem = "wazuh" /\ (EnsureCached(i) \/ UsesFile(i) \/ CopyToContainer(i) \/ RunScript(i))
InstallElastic(i) == siem = "elastic" /\ (EnsureCached(i) \/ UsesFile(i) \/ CopyToContainer(i) \/ RunScript(i))
InstallOssec(i) == siem = "ossec" /\ RunScript(i)

\* Too small to be the agent: removed, also when others are about to copy it.
RemovesTiny(i) ==
    /\ IsAt(i, "cached") /\ package \notin {"part", "whole"}
    /\ package' = Missing /\ latest' = NotOpened
    /\ FallsBack(i)
    /\ UNCHANGED <<siem, cacheLock, inside>>

InstallUtmstack(i) ==
    /\ siem = "utmstack"
    /\ \/ EnsureCached(i) \/ RemovesTiny(i) \/ CopyToContainer(i) \/ RunScript(i)
       \/ package \in {"part", "whole"} /\ UsesFile(i)

InstallNext(i) == InstallWazuh(i) \/ InstallElastic(i) \/ InstallUtmstack(i) \/ InstallOssec(i)

\* The server stops or is killed, with its workers and their downloads.
InstallsCutOff ==
    /\ install' = [i \in Installs |-> "none"]
    /\ cacheLock' = [p \in DOMAIN cacheLock |-> Unlocked]
    /\ latest' = NotOpened
    /\ inside' = [i \in Installs |-> NotCopied]
    /\ UNCHANGED <<siem, package>>

\* An administrator makes room.
DeleteCache ==
    /\ package' = Missing /\ latest' = NotOpened
    /\ UNCHANGED <<siem, cacheLock, install, inside>>

PackagesInit ==
    /\ siem \in Siems
    /\ package = Missing /\ latest = NotOpened
    /\ cacheLock = [p \in {"server"} \cup WorkerProcesses |-> Unlocked]
    /\ install = [i \in Installs |-> "none"]
    /\ inside = [i \in Installs |-> NotCopied]

PackagesNext ==
    \/ \E i \in Installs : InstallBegins(i) \/ InstallNext(i)
    \/ InstallsCutOff \/ DeleteCache

PackagesSpec == PackagesInit /\ [][PackagesNext]_packageVars

\* Every command has a timeout, and a thread gets the lock that others give back.
PackagesFairness == \A i \in Installs : WF_packageVars(InstallNext(i)) /\ SF_packageVars(TakeLock(i))

-----------------------------------------------------------------------------
(* Properties. *)

\* cache.py: "concurrent containers wait for the first download to finish rather than
\* downloading in parallel".
DownloadedOnce == \A i, j \in Installs : IsAt(i, "download") /\ IsAt(j, "download") => i = j

\* Every install ends, whatever fails, is cut off or removed from the cache meanwhile
\* and whoever waits for the lock, unless its process was forked while the server held
\* the lock (cache.py: ensure_cached).
InstallsEnd == \A i \in Installs :
    install[i] \in Waiting /\ cacheLock[Process(i)] # Inherited ~> install[i] \notin Waiting
=============================================================================
