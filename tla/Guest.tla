-------------------------------- MODULE Guest --------------------------------
(***************************************************************************)
(* How the Linux userland comes onto the phone: ensure in                  *)
(* crates/mc-sandbox/src/rootfs.rs, called once per launch by the          *)
(* bootstrap thread (apps/android/src/bootstrap.rs), which then tries the  *)
(* guest, sets it up and tells the rest of the app that it is there, while *)
(* the shell pushes the phone's name servers whenever the network changes  *)
(* (apps/android/src/network.rs).                                          *)
(*                                                                         *)
(* An image is the number of the app version that pins it; image 0 is      *)
(* bytes that are nobody's.  An archive is how many of its chunks are on   *)
(* the disk and whose they are; every version's has the same size.  A tree *)
(* is partly there, has holes where entries could not be written, or is    *)
(* whole.                                                                  *)
(* The app can be killed, a connection can break and the disk can refuse a *)
(* write between any two steps; what was written before that stays.        *)
(* Name servers are the number of the network they came with; 0 is an      *)
(* empty list, for which public ones are written.                          *)
(***************************************************************************)
EXTENDS Integers

CONSTANTS
  MaxVersion,     \* bound: versions of the app installed one after another
  Size,           \* chunks of an archive
  MaxTroubles,    \* bound: kills, broken connections, refused writes
  MaxPushes       \* bound: pushes of name servers, and networks

ASSUME GuestAssumption ==
  /\ MaxVersion \in Nat \ {0}
  /\ Size \in Nat \ {0}
  /\ {MaxTroubles, MaxPushes} \subseteq Nat

VARIABLES
  archive,     \* the download on disk
  staging,     \* <dest>.unpacking
  dest,        \* <dest>
  marker,      \* the image <dest>/.mc-rootfs names, 0 if it is not there

  version,     \* of the app, and of the image it pins
  honours,     \* the server answers a request for a range with that range
  pc,          \* where the bootstrap thread is
  source,      \* the image whose bytes the response carries
  left,        \* chunks the response still carries
  ready,       \* SANDBOX_PATHS is set
  troubles,

  guest,       \* in <dest>: its name servers, git, and git's global setting
  fresh,       \* this launch does not know of a guest from an earlier one
  servers,     \* DNS_SERVERS
  pushing,     \* they are stored, and SANDBOX_PATHS is not yet looked at
  pushes

(* Observed, never read by a guard.                                        *)
VARIABLES
  leftover,    \* a launch ended on a complete archive, or will
  behind,      \* resolv.conf was not written, or the guest announced too late
  skipped      \* the launch that installed the tree could not add git

disk     == <<archive, staging, dest, marker>>
response == <<source, left>>
network  == <<servers, pushing, pushes>>
setup    == <<guest, fresh, network, behind, skipped>>
vars     == <<disk, version, honours, pc, response, ready, troubles, leftover, setup>>

Image   == 0 .. MaxVersion
Empty   == [have |-> 0, of |-> 0]
NoTree  == [of |-> 0, is |-> "none"]
NoNames == -1
Bare    == [names |-> NoNames, git |-> FALSE, renames |-> FALSE]

Init ==
  /\ archive = Empty
  /\ staging = NoTree /\ dest = NoTree /\ marker = 0
  /\ version = 1
  /\ honours \in BOOLEAN
  /\ pc = "off"
  /\ source = 0 /\ left = 0
  /\ ready = FALSE
  /\ troubles = 0
  /\ guest = Bare /\ fresh = TRUE
  /\ servers = 0 /\ pushing = FALSE /\ pushes = 0
  /\ leftover = FALSE /\ behind = FALSE /\ skipped = FALSE

-----------------------------------------------------------------------------
(***************************************************************************)
(* A launch begins and ends.                                               *)
(***************************************************************************)
Trouble == troubles < MaxTroubles /\ troubles' = troubles + 1

(* The app may have been updated since it last ran.                        *)
Launch ==
  /\ pc = "off"
  /\ pc' = "check"
  /\ version' \in version .. version + 1 /\ version' <= MaxVersion
  /\ fresh' = TRUE
  /\ UNCHANGED <<disk, honours, response, ready, troubles, leftover, guest, network,
                 behind, skipped>>

Leaves == leftover' = (leftover \/ archive.have = Size)

(* ensure returned an error: the bootstrap thread ends, the app stays.     *)
GivesUp ==
  /\ pc \in {"request", "body", "unpack", "swap", "mark"}
  /\ Trouble
  /\ pc' = "failed"
  /\ Leaves
  /\ UNCHANGED <<disk, version, honours, response, ready, setup>>

(* The process is gone, and with it what was pushed.                       *)
Gone ==
  /\ pc' = "off" /\ ready' = FALSE
  /\ servers' = 0 /\ pushing' = FALSE

(* The guest is marked as installed, and git is yet to be added.           *)
OwesGit == fresh /\ pc \in {"discard", "probe", "names", "config", "git"}

Killed ==
  /\ pc # "off"
  /\ Trouble
  /\ Gone
  /\ Leaves
  /\ skipped' = (skipped \/ OwesGit)
  /\ UNCHANGED <<disk, version, honours, response, guest, fresh, pushes, behind>>

Closed ==
  /\ pc \in {"failed", "done"}
  /\ Gone
  /\ UNCHANGED <<disk, version, honours, response, troubles, leftover, guest, fresh,
                 pushes, behind, skipped>>

-----------------------------------------------------------------------------
(***************************************************************************)
(* ensure: look, download, verify.                                         *)
(***************************************************************************)
IsReady == marker = version

(* Mutant: every launch installs anew.                                     *)
CheckNever ==
  /\ pc = "check"
  /\ pc' = "request"
  /\ UNCHANGED <<disk, version, honours, response, ready, troubles, leftover, setup>>

Check ==
  /\ pc = "check"
  /\ pc' = IF IsReady THEN "probe" ELSE "request"
  /\ fresh' = ~IsReady
  /\ UNCHANGED <<disk, version, honours, response, ready, troubles, leftover, guest,
                 network, behind, skipped>>

(* The response is the pinned image's, unless something on the way to the  *)
(* server answered in its place or the image there has moved.              *)
Answers ==
  \/ source' = version /\ UNCHANGED troubles
  \/ source' = 0 /\ Trouble

(* 200: the whole file is sent, and what there was is removed.  So answers *)
(* a server that knows no ranges, and may anything that is not the server. *)
Restarts ==
  /\ pc = "request"
  /\ Answers
  /\ archive.have = 0 \/ ~honours \/ source' = 0
  /\ archive' = Empty /\ left' = Size
  /\ pc' = "body"
  /\ UNCHANGED <<staging, dest, marker, version, honours, ready, leftover, setup>>

(* 206: the rest is sent, and appended.                                    *)
Resumes ==
  /\ pc = "request"
  /\ honours /\ archive.have \in 1 .. Size - 1
  /\ Answers
  /\ left' = Size - archive.have
  /\ pc' = "body"
  /\ UNCHANGED <<disk, version, honours, ready, leftover, setup>>

(* 416: there is nothing after the end of the file.                        *)
RangeRefused ==
  /\ pc = "request"
  /\ honours /\ archive.have = Size
  /\ pc' = "failed"
  /\ UNCHANGED <<disk, version, honours, response, ready, troubles, leftover, setup>>

Downloads ==
  /\ pc = "body" /\ left > 0
  /\ left' = left - 1
  /\ archive' = [have |-> archive.have + 1,
                 of |-> IF archive.have = 0 \/ archive.of = source THEN source ELSE 0]
  /\ UNCHANGED <<staging, dest, marker, version, honours, pc, source, ready, troubles,
                 leftover, setup>>

Downloaded ==
  /\ pc = "body" /\ left = 0
  /\ pc' = "verify"
  /\ UNCHANGED <<disk, version, honours, response, ready, troubles, leftover, setup>>

(* Mutant: an archive of the right length is the right archive.            *)
ChecksumSkipped == TRUE

ChecksumAgrees == archive = [have |-> Size, of |-> version]

Verified ==
  /\ pc = "verify"
  /\ ChecksumAgrees
  /\ pc' = "unpack"
  /\ UNCHANGED <<disk, version, honours, response, ready, troubles, leftover, setup>>

(* Mutant: an archive with the wrong checksum is kept.                     *)
MismatchKept ==
  /\ pc = "verify"
  /\ ~ChecksumAgrees
  /\ pc' = "failed"
  /\ UNCHANGED <<disk, version, honours, response, ready, troubles, leftover, setup>>

(* remove_file, whose failure is ignored.                                  *)
Removes ==
  \/ archive' = Empty /\ UNCHANGED <<troubles, leftover>>
  \/ Trouble /\ Leaves /\ UNCHANGED archive

Mismatch ==
  /\ pc = "verify"
  /\ ~ChecksumAgrees
  /\ Removes
  /\ pc' = "failed"
  /\ UNCHANGED <<staging, dest, marker, version, honours, response, ready, setup>>

-----------------------------------------------------------------------------
(***************************************************************************)
(* ensure: unpack beside, swap in, mark, and drop the archive.             *)
(***************************************************************************)
UnpackBegins ==
  /\ pc = "unpack"
  /\ staging' = [of |-> archive.of, is |-> "part"]
  /\ pc' = "unpacking"
  /\ UNCHANGED <<archive, dest, marker, version, honours, response, ready, troubles,
                 leftover, setup>>

(* An entry that cannot be written is skipped like the device nodes that   *)
(* never can be.                                                           *)
Unpacked ==
  /\ pc = "unpacking"
  /\ \/ staging' = [staging EXCEPT !.is = "whole"] /\ UNCHANGED troubles
     \/ staging' = [staging EXCEPT !.is = "holes"] /\ Trouble
  /\ pc' = "clear"
  /\ UNCHANGED <<archive, dest, marker, version, honours, response, ready, leftover,
                 setup>>

(* remove_dir_all takes the files of the old tree in any order, and its    *)
(* failure is ignored.                                                     *)
ClearBegins ==
  /\ pc = "clear"
  /\ dest' = IF dest = NoTree THEN NoTree ELSE [dest EXCEPT !.is = "part"]
  /\ marker' \in {0, marker}
  /\ pc' = "clearing"
  /\ UNCHANGED <<archive, staging, version, honours, response, ready, troubles, leftover,
                 setup>>

Cleared ==
  /\ pc = "clearing"
  /\ \/ dest' = NoTree /\ marker' = 0 /\ UNCHANGED troubles
     \/ dest # NoTree /\ Trouble /\ UNCHANGED <<dest, marker>>
  /\ pc' = "swap"
  /\ UNCHANGED <<archive, staging, version, honours, response, ready, leftover,
                 setup>>

Swap ==
  /\ pc = "swap" /\ dest = NoTree
  /\ dest' = staging /\ staging' = NoTree
  /\ guest' = Bare /\ skipped' = FALSE
  /\ pc' = "mark"
  /\ UNCHANGED <<archive, marker, version, honours, response, ready, troubles, leftover,
                 fresh, network, behind>>

(* rename does not replace a directory that is not empty.                  *)
SwapFails ==
  /\ pc = "swap" /\ dest # NoTree
  /\ pc' = "failed"
  /\ Leaves
  /\ UNCHANGED <<disk, version, honours, response, ready, troubles, setup>>

Mark ==
  /\ pc = "mark"
  /\ marker' = version
  /\ pc' = "discard"
  /\ UNCHANGED <<archive, staging, dest, version, honours, response, ready, troubles,
                 leftover, setup>>

Discard ==
  /\ pc = "discard"
  /\ Removes
  /\ pc' = "probe"
  /\ UNCHANGED <<staging, dest, marker, version, honours, response, ready, setup>>

-----------------------------------------------------------------------------
(***************************************************************************)
(* The bootstrap: try the guest, set it up, announce it.                   *)
(***************************************************************************)
installation == <<disk, version, honours, response, leftover>>

(* Three commands are tried; one that runs is enough.  A tree with holes   *)
(* may run none.                                                           *)
Probe ==
  /\ pc = "probe"
  /\ pc' = "names"
  /\ UNCHANGED <<installation, ready, troubles, setup>>

(* The servers, or public ones if there are none.                          *)
Written == [guest EXCEPT !.names = servers]

(* network::apply: the file is replaced by a rename or stays as it is.     *)
Applies ==
  \/ /\ guest' = Written
     /\ behind' = FALSE
     /\ UNCHANGED troubles
  \/ Trouble /\ behind' = TRUE /\ UNCHANGED guest

ProbeFails ==
  /\ pc = "probe" /\ dest.is # "whole"
  /\ Applies
  /\ skipped' = (skipped \/ fresh)
  /\ pc' = "done"
  /\ UNCHANGED <<installation, ready, fresh, network>>

Names ==
  /\ pc = "names"
  /\ Applies
  /\ skipped' = (skipped \/ (fresh /\ behind'))
  /\ pc' = "config"
  /\ UNCHANGED <<installation, ready, fresh, network>>

(* There has to be a git to run.                                           *)
Configures ==
  /\ pc = "config"
  /\ \/ guest' = [guest EXCEPT !.renames = @ \/ guest.git] /\ UNCHANGED troubles
     \/ Trouble /\ UNCHANGED guest
  /\ pc' = IF fresh THEN "git" ELSE "ready"
  /\ UNCHANGED <<installation, ready, fresh, network, behind, skipped>>

(* apk has to find the mirror, and may still fail.                         *)
AddsGit ==
  /\ pc = "git"
  /\ \/ /\ guest' = [guest EXCEPT !.git = guest.names # NoNames]
        /\ UNCHANGED <<troubles, skipped>>
     \/ /\ Trouble \/ (dest.is # "whole" /\ UNCHANGED troubles)
        /\ skipped' = TRUE
        /\ UNCHANGED guest
  /\ pc' = "ready"
  /\ UNCHANGED <<installation, ready, fresh, network, behind>>

(* Mutant: mark_ready relies on the name servers written before.           *)
MarkReadyAsIs ==
  /\ pc = "ready"
  /\ pc' = "announce"
  /\ UNCHANGED <<installation, ready, troubles, setup>>

(* mark_ready: DNS first, ...                                              *)
MarkReady ==
  /\ pc = "ready"
  /\ Applies
  /\ pc' = "announce"
  /\ UNCHANGED <<installation, ready, fresh, network, skipped>>

(* ... then SANDBOX_PATHS.                                                 *)
Announces ==
  /\ pc = "announce"
  /\ ready' = TRUE
  /\ pc' = "done"
  /\ UNCHANGED <<installation, troubles, setup>>

-----------------------------------------------------------------------------
(***************************************************************************)
(* The shell pushes name servers when it starts and when the network       *)
(* changes, one push after the other.                                      *)
(***************************************************************************)
PushStores ==
  /\ pc # "off" /\ ~pushing /\ pushes < MaxPushes
  /\ servers' \in 0 .. MaxPushes
  /\ pushing' = TRUE /\ pushes' = pushes + 1
  /\ UNCHANGED <<installation, pc, ready, troubles, guest, fresh, behind, skipped>>

(* What is pushed between the bootstrap's last look at the servers and its *)
(* announcement is left to the next push.                                  *)
PushApplies ==
  /\ pushing
  /\ pushing' = FALSE
  /\ \/ ready /\ Applies
     \/ /\ ~ready
        /\ behind' = (behind \/ (pc = "announce" /\ guest.names # servers))
        /\ UNCHANGED <<guest, troubles>>
  /\ UNCHANGED <<installation, pc, ready, fresh, servers, pushes, skipped>>

-----------------------------------------------------------------------------
Download == Restarts \/ Resumes \/ RangeRefused \/ Downloads \/ Downloaded

Verify == Verified \/ Mismatch

Install ==
  \/ UnpackBegins \/ Unpacked \/ ClearBegins \/ Cleared \/ Swap \/ SwapFails
  \/ Mark \/ Discard

SetsUp ==
  \/ Probe \/ ProbeFails \/ Names \/ Configures \/ AddsGit \/ MarkReady \/ Announces

Bootstrap == Check \/ Download \/ Verify \/ Install \/ SetsUp

Push == PushStores \/ PushApplies

Next == Launch \/ GivesUp \/ Killed \/ Closed \/ Bootstrap \/ Push

Spec == Init /\ [][Next]_vars

(* The thread runs, and the app is opened again whenever it was closed or  *)
(* its installation failed.                                                *)
FairSpec == Spec /\ WF_vars(Bootstrap) /\ WF_vars(Launch \/ Closed)

-----------------------------------------------------------------------------
(***************************************************************************)
(* Properties.                                                             *)
(***************************************************************************)
Places ==
  {"off", "check", "request", "body", "verify", "unpack", "unpacking", "clear",
   "clearing", "swap", "mark", "discard", "probe", "names", "config", "git", "ready",
   "announce", "done", "failed"}

InstallationTypeOK ==
  /\ archive \in [have : 0 .. Size, of : Image]
  /\ {staging, dest} \subseteq [of : Image, is : {"none", "part", "holes", "whole"}]
  /\ marker \in Image
  /\ version \in 1 .. MaxVersion
  /\ honours \in BOOLEAN
  /\ pc \in Places
  /\ source \in Image /\ left \in 0 .. Size
  /\ ready \in BOOLEAN
  /\ troubles \in 0 .. MaxTroubles
  /\ leftover \in BOOLEAN

SetupTypeOK ==
  /\ guest \in [names : {NoNames} \cup 0 .. MaxPushes, git : BOOLEAN, renames : BOOLEAN]
  /\ fresh \in BOOLEAN
  /\ servers \in 0 .. MaxPushes /\ pushing \in BOOLEAN /\ pushes \in 0 .. MaxPushes
  /\ behind \in BOOLEAN /\ skipped \in BOOLEAN

(* Every variable has its type: no archive is longer than the file it is   *)
(* of, however often it was resumed.                                       *)
TypeOK == InstallationTypeOK /\ SetupTypeOK

(* A tree that is_ready accepts, or that the rest of the app has been      *)
(* given, is the pinned image's and was unpacked to the end, wherever the  *)
(* app was killed or the disk failed (rootfs.rs:22-24, bootstrap.rs:77-78, *)
(* 133-135); entries that could not be written are missing.                *)
Installed == dest.of = version /\ dest.is \in {"whole", "holes"}

TrustedIsInstalled == marker = version \/ ready => Installed

(* "A relaunch is free" (rootfs.rs:12): what is installed is not touched   *)
(* until the app pins another image.                                       *)
RelaunchIsFree ==
  [][ marker = version /\ version' = version => dest' = dest /\ marker' = marker ]_vars

(* "The download resumes" (rootfs.rs:11): chunks are thrown away only if   *)
(* the server does not honour ranges, if something else answered in its    *)
(* place (rootfs.rs:206-209 takes any 200 for such a server), if they are  *)
(* wrong, or when they are unpacked.                                       *)
DownloadIsKept ==
  [][ archive'.have < archive.have =>
        \/ ~honours
        \/ pc = "request" /\ source' = 0
        \/ pc \in {"verify", "discard"} ]_vars

(* A guest that was announced resolves names as the phone does, whatever   *)
(* the network did while the bootstrap and the shell each wrote            *)
(* resolv.conf (agent_task.rs:65-69, network.rs:14-18): unless it could    *)
(* not be written, or the servers came between the last write and the      *)
(* announcement.                                                           *)
NamesAreCurrent == ~pushing /\ ~behind => guest.names = servers

(* And it has git, which only the launch that installed it adds            *)
(* (bootstrap.rs:95-131): if that launch was not cut short and apk did not *)
(* fail of itself.                                                         *)
GitIsThere == ~skipped => guest.git

ReadyIsSetUp == ready => NamesAreCurrent /\ GitIsThere

(* With enough launches the guest comes up, whatever went wrong before:    *)
(* partial, foreign and corrupt archives, half trees, updates of the app.  *)
(* Except if a launch ended on a complete archive, or one that could not   *)
(* be removed, which a server that honours ranges will never complete, or  *)
(* if the tree has holes.                                                  *)
InstalledAtLast ==
  []<>(ready \/ (leftover /\ honours) \/ (marker = version /\ dest.is = "holes"))

(* rootfs.rs:9-12 and 134-137: the first run may be interrupted, and no    *)
(* archive is kept that makes every later run fail identically.            *)
LaunchesInstall == []<>(ready \/ dest.is = "holes")

(* docs/ARCHITECTURE.md:645-647: git's setting for a file system without   *)
(* hard links is made at every launch, so that whoever runs git in the     *)
(* guest is covered, in a new one too.                                     *)
GitIsConfigured == ready /\ guest.git => guest.renames
=============================================================================
