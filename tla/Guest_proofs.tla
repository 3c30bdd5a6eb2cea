----------------------------- MODULE Guest_proofs -----------------------------
(***************************************************************************)
(* What Guest guarantees for any number of app versions, any size of the   *)
(* archive, any number of kills and failures, and any networks.            *)
(*                                                                         *)
(* That a marked tree is installed is not inductive: it rests on what has  *)
(* been checked by the time each step is reached, and on the marker being  *)
(* that of another image whenever the tree is touched.  That an announced  *)
(* guest is set up rests on that: a marked tree has git or is owed it, and *)
(* the last name servers written before the announcement are the phone's   *)
(* or a push is still to be applied.                                       *)
(***************************************************************************)
EXTENDS Guest, TLAPS

Unpacking == {"unpack", "unpacking", "clear", "clearing", "swap", "mark", "discard"}
Touching  == {"request", "body", "verify"} \cup (Unpacking \ {"discard"})
Setting   == {"discard", "probe", "names", "config", "git", "ready", "announce"}

(* A response completes the archive, and no more.                          *)
Completes == pc = "body" => archive.have + left = Size

(* What is unpacked has been verified.                                     *)
Checked == pc \in Unpacking => archive = [have |-> Size, of |-> version]

(* What is swapped in was unpacked from it to the end.                     *)
Staged ==
  /\ pc = "unpacking" => staging.of = version
  /\ pc \in {"clear", "clearing", "swap"} =>
       staging.of = version /\ staging.is \in {"whole", "holes"}

Swapped == pc \in Setting \cup {"mark"} => Installed

(* The marker is this version's only where the tree is left alone.         *)
Marked ==
  /\ marker <= version
  /\ pc \in Setting => marker = version
  /\ pc \in Touching => marker # version

Using == ready => pc = "done" /\ marker = version

InstallInv ==
  /\ InstallationTypeOK
  /\ Completes
  /\ Checked
  /\ Staged
  /\ Swapped
  /\ Marked
  /\ Using
  /\ TrustedIsInstalled

(* A launch that touches the tree is the one that installs git.            *)
Installing == pc \in Touching \cup {"git"} => fresh

(* apk finds its mirror.                                                   *)
Named == pc \in {"config", "git"} /\ fresh /\ ~skipped => guest.names # NoNames

(* The last name servers before the announcement, and since.               *)
Current ==
  (pc = "announce" \/ ready) /\ ~pushing /\ ~behind => guest.names = servers

(* A marked tree has git, is owed it, or will never have it.               *)
GitIsDue == marker = version => guest.git \/ skipped \/ OwesGit

SetupInv ==
  /\ SetupTypeOK
  /\ Installing
  /\ Named
  /\ Current
  /\ GitIsDue

IInv == InstallInv /\ SetupInv

-----------------------------------------------------------------------------
LEMMA InitIInv == Init => IInv
<1>. SUFFICES ASSUME Init PROVE IInv
  OBVIOUS
<1>. USE GuestAssumption DEF Init, Image, Empty, NoTree, NoNames, Bare
<1>1. honours \in BOOLEAN /\ ready \in BOOLEAN /\ leftover \in BOOLEAN
  BY Zenon
<1>2. InstallationTypeOK
  BY <1>1 DEF InstallationTypeOK, Places
<1>3. InstallInv
  BY <1>2
 
  DEF InstallInv, Completes, Checked, Staged, Swapped, Marked, Using, TrustedIsInstalled,
      Unpacking, Touching, Setting
<1>4. SetupTypeOK
  <2>1. 0 \in 0 .. MaxPushes
    OBVIOUS
  <2>2. QED
    BY <2>1, Zenon DEF SetupTypeOK
<1>5. Installing /\ Named /\ Current /\ GitIsDue
  BY DEF Installing, Named, Current, GitIsDue, Touching, Unpacking
<1>6. QED
  BY <1>3, <1>4, <1>5 DEF IInv, SetupInv

(* A removal empties the archive, or fails and leaves it as a leftover.    *)
LEMMA Removal ==
  ASSUME InstallInv, Removes
  PROVE  /\ leftover' \in BOOLEAN
         /\ troubles' \in 0 .. MaxTroubles
         /\ \/ archive' = Empty
            \/ archive' = archive /\ (archive.have = Size => leftover')
<1>. USE GuestAssumption DEF InstallInv, InstallationTypeOK
<1>1. CASE archive' = Empty /\ UNCHANGED <<troubles, leftover>>
  BY <1>1
<1>2. CASE Trouble /\ Leaves /\ UNCHANGED archive
  <2>1. leftover' \in BOOLEAN /\ (archive.have = Size => leftover')
    BY <1>2, Zenon DEF Leaves
  <2>2. troubles' \in 0 .. MaxTroubles
    BY <1>2 DEF Trouble
  <2>3. QED
    BY <1>2, <2>1, <2>2
<1>3. QED
  BY <1>1, <1>2 DEF Removes

LEMMA NextInstallInv == InstallInv /\ [Next]_vars => InstallInv'
<1>. SUFFICES ASSUME InstallInv, [Next]_vars PROVE InstallInv'
  OBVIOUS
<1>. USE GuestAssumption
     DEF InstallInv, InstallationTypeOK, Completes, Checked, Staged, Swapped, Marked,
         Using, TrustedIsInstalled, Installed, Unpacking, Touching, Setting, Places,
         Image, Empty, NoTree, disk, response
<1>1. CASE Launch
  BY <1>1 DEF Launch
<1>2. CASE GivesUp
  BY <1>2 DEF GivesUp, Trouble, Leaves
<1>3. CASE Killed
  <2>1. ready' \in BOOLEAN /\ leftover' \in BOOLEAN
    BY <1>3, Zenon DEF Killed, Leaves, Gone
  <2>2. InstallationTypeOK'
    BY <1>3, <2>1 DEF Killed, Trouble, Gone
  <2>3. pc' = "off" /\ ~ready' /\ UNCHANGED <<dest, marker, version>>
    BY <1>3 DEF Killed, Gone
  <2>4. QED
    BY <2>2, <2>3
<1>4. CASE Closed
  BY <1>4 DEF Closed, Gone
<1>5. CASE Check
  BY <1>5 DEF Check, IsReady
<1>6. CASE Restarts
  BY <1>6 DEF Restarts, Answers, Trouble
<1>7. CASE Resumes
  BY <1>7 DEF Resumes, Answers, Trouble
<1>8. CASE RangeRefused
  BY <1>8 DEF RangeRefused
<1>9. CASE Downloads
  BY <1>9 DEF Downloads
<1>10. CASE Downloaded
  BY <1>10 DEF Downloaded
<1>11. CASE Verified
  BY <1>11 DEF Verified, ChecksumAgrees
<1>12. CASE Mismatch
  BY <1>12, Removal DEF Mismatch, ChecksumAgrees
<1>13. CASE UnpackBegins
  BY <1>13 DEF UnpackBegins
<1>14. CASE Unpacked
  BY <1>14 DEF Unpacked, Trouble
<1>15. CASE ClearBegins
  BY <1>15 DEF ClearBegins
<1>16. CASE Cleared
  BY <1>16 DEF Cleared, Trouble
<1>17. CASE Swap
  BY <1>17 DEF Swap
<1>18. CASE SwapFails
  BY <1>18 DEF SwapFails, Leaves
<1>19. CASE Mark
  BY <1>19 DEF Mark
<1>20. CASE Discard
  BY <1>20, Removal DEF Discard
<1>21. CASE Probe
  BY <1>21 DEF Probe, installation
<1>22. CASE ProbeFails
  BY <1>22 DEF ProbeFails, Applies, Trouble, installation
<1>23. CASE Names
  BY <1>23 DEF Names, Applies, Trouble, installation
<1>24. CASE Configures
  BY <1>24 DEF Configures, Trouble, installation
<1>25. CASE AddsGit
  BY <1>25 DEF AddsGit, Trouble, installation
<1>26. CASE MarkReady
  BY <1>26 DEF MarkReady, Applies, Trouble, installation
<1>27. CASE Announces
  BY <1>27 DEF Announces, installation
<1>28. CASE PushStores
  BY <1>28 DEF PushStores, installation
<1>29. CASE PushApplies
  BY <1>29 DEF PushApplies, Applies, Trouble, installation
<1>30. CASE UNCHANGED vars
  BY <1>30 DEF vars
<1>31. QED
  BY <1>1, <1>2, <1>3, <1>4, <1>5, <1>6, <1>7, <1>8, <1>9, <1>10, <1>11, <1>12, <1>13,
     <1>14, <1>15, <1>16, <1>17, <1>18, <1>19, <1>20, <1>21, <1>22, <1>23, <1>24,
     <1>25, <1>26, <1>27, <1>28, <1>29, <1>30
  DEF Next, Bootstrap, Download, Verify, Install, SetsUp, Push

LEMMA NextSetupInv == InstallInv /\ SetupInv /\ [Next]_vars => SetupInv'
<1>. SUFFICES ASSUME InstallInv, SetupInv, [Next]_vars PROVE SetupInv'
  OBVIOUS
<1>. USE GuestAssumption
     DEF SetupInv, SetupTypeOK, Installing, Named, Current, GitIsDue, OwesGit,
         InstallInv, Marked, Using, Unpacking, Touching, Setting, NoNames, disk, setup,
         network
<1>0. version \in Nat \ {0} /\ marker \in Nat
  BY DEF InstallationTypeOK, Image
<1>1. CASE Launch
  BY <1>0, <1>1 DEF Launch
<1>2. CASE GivesUp
  BY <1>0, <1>2 DEF GivesUp, Trouble, Leaves
<1>3. CASE Killed
  <2>1. skipped' \in BOOLEAN /\ pushing' \in BOOLEAN
    BY <1>3, Zenon DEF Killed, Gone
  <2>2. SetupTypeOK'
    BY <1>3, <2>1 DEF Killed, Gone
  <2>3. pc' = "off" /\ ~ready'
    BY <1>3 DEF Killed, Gone
  <2>4. marker' = version' => guest'.git \/ skipped'
    BY <1>3, Zenon DEF Killed
  <2>5. QED
    BY <2>2, <2>3, <2>4
<1>4. CASE Closed
  <2>1. pushing' \in BOOLEAN
    BY <1>4, Zenon DEF Closed, Gone
  <2>2. SetupTypeOK'
    BY <1>4, <2>1 DEF Closed, Gone
  <2>3. pc' = "off" /\ ~ready'
    BY <1>4 DEF Closed, Gone
  <2>4. marker' = version' => guest'.git \/ skipped'
    BY <1>4 DEF Closed
  <2>5. QED
    BY <2>2, <2>3, <2>4
<1>5. CASE Check
  BY <1>0, <1>5 DEF Check, IsReady
<1>6. CASE Restarts
  BY <1>0, <1>6 DEF Restarts, Answers, Trouble
<1>7. CASE Resumes
  BY <1>0, <1>7 DEF Resumes, Answers, Trouble
<1>8. CASE RangeRefused
  BY <1>0, <1>8 DEF RangeRefused
<1>9. CASE Downloads
  BY <1>0, <1>9 DEF Downloads
<1>10. CASE Downloaded
  BY <1>0, <1>10 DEF Downloaded
<1>11. CASE Verified
  BY <1>0, <1>11 DEF Verified, ChecksumAgrees
<1>12. CASE Mismatch
  BY <1>0, <1>12 DEF Mismatch, Removes, Leaves, Trouble, ChecksumAgrees
<1>13. CASE UnpackBegins
  BY <1>0, <1>13 DEF UnpackBegins
<1>14. CASE Unpacked
  BY <1>0, <1>14 DEF Unpacked, Trouble
<1>15. CASE ClearBegins
  BY <1>0, <1>15 DEF ClearBegins
<1>16. CASE Cleared
  BY <1>0, <1>16 DEF Cleared, Trouble
<1>17. CASE Swap
  BY <1>0, <1>17 DEF Swap, Bare
<1>18. CASE SwapFails
  BY <1>0, <1>18 DEF SwapFails, Leaves
<1>19. CASE Mark
  BY <1>0, <1>19 DEF Mark
<1>20. CASE Discard
  BY <1>0, <1>20 DEF Discard, Removes, Leaves, Trouble
<1>21. CASE Probe
  BY <1>0, <1>21 DEF Probe, installation
<1>22. CASE ProbeFails
  BY <1>0, <1>22 DEF ProbeFails, Applies, Written, Trouble, installation
<1>23. CASE Names
  <2>1. behind' \in BOOLEAN /\ skipped' \in BOOLEAN
    BY <1>23, Zenon DEF Names, Applies
  <2>2. SetupTypeOK'
    BY <1>23, <2>1 DEF Names, Applies, Written
  <2>3. pc' = "config" /\ ~ready' /\ fresh' = fresh
    BY <1>23 DEF Names
  <2>4. fresh /\ ~skipped' => guest'.names = servers
    BY <1>23, Zenon DEF Names, Applies, Written
  <2>5. Installing' /\ Named' /\ Current'
    BY <1>23, <2>3, <2>4
  <2>6. GitIsDue'
    BY <1>23 DEF Names, Applies, Written, installation
  <2>7. QED
    BY <2>2, <2>5, <2>6
<1>24. CASE Configures
  BY <1>0, <1>24 DEF Configures, Trouble, installation
<1>25. CASE AddsGit
  BY <1>0, <1>25 DEF AddsGit, Trouble, installation
<1>26. CASE MarkReady
  BY <1>0, <1>26 DEF MarkReady, Applies, Written, Trouble, installation
<1>27. CASE Announces
  BY <1>0, <1>27 DEF Announces, installation
<1>28. CASE PushStores
  BY <1>0, <1>28 DEF PushStores, installation
<1>29. CASE PushApplies
  BY <1>0, <1>29 DEF PushApplies, Applies, Written, Trouble, installation
<1>30. CASE UNCHANGED vars
  BY <1>30 DEF vars
<1>31. QED
  BY <1>1, <1>2, <1>3, <1>4, <1>5, <1>6, <1>7, <1>8, <1>9, <1>10, <1>11, <1>12, <1>13,
     <1>14, <1>15, <1>16, <1>17, <1>18, <1>19, <1>20, <1>21, <1>22, <1>23, <1>24,
     <1>25, <1>26, <1>27, <1>28, <1>29, <1>30
  DEF Next, Bootstrap, Download, Verify, Install, SetsUp, Push

THEOREM InductiveInvariant == Spec => []IInv
<1>1. IInv /\ [Next]_vars => IInv'
  BY NextInstallInv, NextSetupInv DEF IInv
<1>2. QED
  BY <1>1, InitIInv, PTL DEF Spec

(* The disk and the thread keep their types; no archive outgrows the file  *)
(* it is of, however often its download was interrupted and resumed        *)
(* (rootfs.rs:203-221).                                                    *)
THEOREM TypeCorrect == Spec => []TypeOK
<1>1. IInv => TypeOK
  BY DEF IInv, InstallInv, SetupInv, TypeOK
<1>2. QED
  BY <1>1, InductiveInvariant, PTL

(* A tree with the pinned image's marker, and any tree commands run in,    *)
(* was unpacked from that image to the end, wherever the app was killed or *)
(* updated (rootfs.rs:22-24, bootstrap.rs:133-135).                        *)
THEOREM TrustedTreesAreInstalled == Spec => []TrustedIsInstalled
<1>1. IInv => TrustedIsInstalled
  BY DEF IInv, InstallInv
<1>2. QED
  BY <1>1, InductiveInvariant, PTL

(* A guest the app was told of has the phone's name servers and git,       *)
(* however pushes, failed writes and kills fell (agent_task.rs:65-69,      *)
(* network.rs:14-18, bootstrap.rs:95-131), outside the two named cases.    *)
THEOREM TheGuestIsSetUp == Spec => []ReadyIsSetUp
<1>1. IInv => ReadyIsSetUp
  BY DEF IInv, InstallInv, SetupInv, Using, Current, GitIsDue, OwesGit, ReadyIsSetUp,
         NamesAreCurrent, GitIsThere
<1>2. QED
  BY <1>1, InductiveInvariant, PTL

(* An installed guest is never touched by a launch (rootfs.rs:12, 127).    *)
THEOREM RelaunchesAreFree == Spec => RelaunchIsFree
<1>1. ASSUME IInv, [Next]_vars, marker = version, version' = version
      PROVE  dest' = dest /\ marker' = marker
  <2>. USE <1>1 DEF IInv, InstallInv, Marked, Touching, Unpacking, disk, installation
  <2>1. CASE Launch
    BY <2>1 DEF Launch
  <2>2. CASE GivesUp
    BY <2>2 DEF GivesUp
  <2>3. CASE Killed
    BY <2>3 DEF Killed
  <2>4. CASE Closed
    BY <2>4 DEF Closed
  <2>5. CASE Check
    BY <2>5 DEF Check
  <2>6. CASE Restarts
    BY <2>6 DEF Restarts
  <2>7. CASE Resumes
    BY <2>7 DEF Resumes
  <2>8. CASE RangeRefused
    BY <2>8 DEF RangeRefused
  <2>9. CASE Downloads
    BY <2>9 DEF Downloads
  <2>10. CASE Downloaded
    BY <2>10 DEF Downloaded
  <2>11. CASE Verified
    BY <2>11 DEF Verified
  <2>12. CASE Mismatch
    BY <2>12 DEF Mismatch, Removes, Leaves, Trouble
  <2>13. CASE UnpackBegins
    BY <2>13 DEF UnpackBegins
  <2>14. CASE Unpacked
    BY <2>14 DEF Unpacked
  <2>15. CASE ClearBegins
    BY <2>15 DEF ClearBegins
  <2>16. CASE Cleared
    BY <2>16 DEF Cleared
  <2>17. CASE Swap
    BY <2>17 DEF Swap
  <2>18. CASE SwapFails
    BY <2>18 DEF SwapFails
  <2>19. CASE Mark
    BY <2>19 DEF Mark
  <2>20. CASE Discard
    BY <2>20 DEF Discard, Removes, Leaves, Trouble
  <2>21. CASE Probe
    BY <2>21 DEF Probe
  <2>22. CASE ProbeFails
    BY <2>22 DEF ProbeFails
  <2>23. CASE Names
    BY <2>23 DEF Names
  <2>24. CASE Configures
    BY <2>24 DEF Configures
  <2>25. CASE AddsGit
    BY <2>25 DEF AddsGit
  <2>26. CASE MarkReady
    BY <2>26 DEF MarkReady
  <2>27. CASE Announces
    BY <2>27 DEF Announces
  <2>28. CASE PushStores
    BY <2>28 DEF PushStores
  <2>29. CASE PushApplies
    BY <2>29 DEF PushApplies
  <2>30. CASE UNCHANGED vars
    BY <2>30 DEF vars
  <2>31. QED
    BY <2>1, <2>2, <2>3, <2>4, <2>5, <2>6, <2>7, <2>8, <2>9, <2>10, <2>11, <2>12,
       <2>13, <2>14, <2>15, <2>16, <2>17, <2>18, <2>19, <2>20, <2>21, <2>22, <2>23,
       <2>24, <2>25, <2>26, <2>27, <2>28, <2>29, <2>30
    DEF Next, Bootstrap, Download, Verify, Install, SetsUp, Push
<1>2. QED
  BY <1>1, InductiveInvariant, PTL DEF Spec, RelaunchIsFree

(* No chunk is thrown away unless the server knows no ranges, something    *)
(* else answers a request for one with a file of its own, the checksum is  *)
(* wrong, or the image is installed (rootfs.rs:11, 199, 206-209).          *)
THEOREM DownloadsAreKept == Spec => DownloadIsKept
<1>1. ASSUME IInv, [Next]_vars, archive'.have < archive.have
      PROVE  \/ ~honours
             \/ pc = "request" /\ source' = 0
             \/ pc \in {"verify", "discard"}
  <2>. USE <1>1 DEF IInv, InstallInv, InstallationTypeOK, disk, installation
  <2>0. ~(archive' = archive)
    OBVIOUS
  <2>1. CASE Launch
    BY <2>0, <2>1 DEF Launch
  <2>2. CASE GivesUp
    BY <2>0, <2>2 DEF GivesUp
  <2>3. CASE Killed
    BY <2>0, <2>3 DEF Killed
  <2>4. CASE Closed
    BY <2>0, <2>4 DEF Closed
  <2>5. CASE Check
    BY <2>0, <2>5 DEF Check
  <2>6. CASE Restarts
    BY <2>0, <2>6 DEF Restarts, Empty
  <2>7. CASE Resumes
    BY <2>0, <2>7 DEF Resumes
  <2>8. CASE RangeRefused
    BY <2>0, <2>8 DEF RangeRefused
  <2>9. CASE Downloads
    BY <2>0, <2>9 DEF Downloads
  <2>10. CASE Downloaded
    BY <2>0, <2>10 DEF Downloaded
  <2>11. CASE Verified
    BY <2>0, <2>11 DEF Verified
  <2>12. CASE Mismatch
    BY <2>0, <2>12 DEF Mismatch, Removes, Leaves, Trouble
  <2>13. CASE UnpackBegins
    BY <2>0, <2>13 DEF UnpackBegins
  <2>14. CASE Unpacked
    BY <2>0, <2>14 DEF Unpacked
  <2>15. CASE ClearBegins
    BY <2>0, <2>15 DEF ClearBegins
  <2>16. CASE Cleared
    BY <2>0, <2>16 DEF Cleared
  <2>17. CASE Swap
    BY <2>0, <2>17 DEF Swap
  <2>18. CASE SwapFails
    BY <2>0, <2>18 DEF SwapFails
  <2>19. CASE Mark
    BY <2>0, <2>19 DEF Mark
  <2>20. CASE Discard
    BY <2>0, <2>20 DEF Discard, Removes, Leaves, Trouble
  <2>21. CASE Probe
    BY <2>0, <2>21 DEF Probe
  <2>22. CASE ProbeFails
    BY <2>0, <2>22 DEF ProbeFails
  <2>23. CASE Names
    BY <2>0, <2>23 DEF Names
  <2>24. CASE Configures
    BY <2>0, <2>24 DEF Configures
  <2>25. CASE AddsGit
    BY <2>0, <2>25 DEF AddsGit
  <2>26. CASE MarkReady
    BY <2>0, <2>26 DEF MarkReady
  <2>27. CASE Announces
    BY <2>0, <2>27 DEF Announces
  <2>28. CASE PushStores
    BY <2>0, <2>28 DEF PushStores
  <2>29. CASE PushApplies
    BY <2>0, <2>29 DEF PushApplies
  <2>30. CASE UNCHANGED vars
    BY <2>0, <2>30 DEF vars
  <2>31. QED
    BY <2>1, <2>2, <2>3, <2>4, <2>5, <2>6, <2>7, <2>8, <2>9, <2>10, <2>11, <2>12,
       <2>13, <2>14, <2>15, <2>16, <2>17, <2>18, <2>19, <2>20, <2>21, <2>22, <2>23,
       <2>24, <2>25, <2>26, <2>27, <2>28, <2>29, <2>30
    DEF Next, Bootstrap, Download, Verify, Install, SetsUp, Push
<1>2. QED
  BY <1>1, InductiveInvariant, PTL DEF Spec, DownloadIsKept

-----------------------------------------------------------------------------
(***************************************************************************)
(* Launches end, and do not fail for ever.                                 *)
(***************************************************************************)
(* What the bootstrap of this launch may still have to do.                 *)
StepsLeft ==
  CASE pc = "check"     -> Size + 17
    [] pc = "request"   -> Size + 16
    [] pc = "body"      -> left + 15
    [] pc = "verify"    -> 14
    [] pc = "unpack"    -> 13
    [] pc = "unpacking" -> 12
    [] pc = "clear"     -> 11
    [] pc = "clearing"  -> 10
    [] pc = "swap"      -> 9
    [] pc = "mark"      -> 8
    [] pc = "discard"   -> 7
    [] pc = "probe"     -> 6
    [] pc = "names"     -> 5
    [] pc = "config"    -> 4
    [] pc = "git"       -> 3
    [] pc = "ready"     -> 2
    [] pc = "announce"  -> 1
    [] OTHER            -> 0

LEMMA FewerLeft ==
  ASSUME InstallInv, [Next]_vars
  PROVE  \/ Launch /\ StepsLeft' = Size + 17
         \/ (Push \/ Closed \/ Killed \/ UNCHANGED vars) /\ StepsLeft' <= StepsLeft
         \/ StepsLeft' < StepsLeft
<1>. USE GuestAssumption
     DEF InstallInv, InstallationTypeOK, StepsLeft, Places, disk, response, installation,
         network, setup, Push
<1>1. CASE Launch
  BY <1>1 DEF Launch
<1>2. CASE GivesUp
  BY <1>2 DEF GivesUp, Trouble, Leaves
<1>3. CASE Killed
  BY <1>3 DEF Killed, Trouble, Gone, Leaves
<1>4. CASE Closed
  BY <1>4 DEF Closed, Gone
<1>5. CASE Check
  BY <1>5 DEF Check, IsReady
<1>6. CASE Restarts
  BY <1>6 DEF Restarts, Answers, Trouble
<1>7. CASE Resumes
  BY <1>7 DEF Resumes, Answers, Trouble
<1>8. CASE RangeRefused
  BY <1>8 DEF RangeRefused
<1>9. CASE Downloads
  BY <1>9 DEF Downloads
<1>10. CASE Downloaded
  BY <1>10 DEF Downloaded
<1>11. CASE Verified
  BY <1>11 DEF Verified, ChecksumAgrees
<1>12. CASE Mismatch
  BY <1>12 DEF Mismatch, Removes, Leaves, Trouble, ChecksumAgrees
<1>13. CASE UnpackBegins
  BY <1>13 DEF UnpackBegins
<1>14. CASE Unpacked
  BY <1>14 DEF Unpacked, Trouble
<1>15. CASE ClearBegins
  BY <1>15 DEF ClearBegins
<1>16. CASE Cleared
  BY <1>16 DEF Cleared, Trouble
<1>17. CASE Swap
  BY <1>17 DEF Swap
<1>18. CASE SwapFails
  BY <1>18 DEF SwapFails, Leaves
<1>19. CASE Mark
  BY <1>19 DEF Mark
<1>20. CASE Discard
  BY <1>20 DEF Discard, Removes, Leaves, Trouble
<1>21. CASE Probe
  BY <1>21 DEF Probe
<1>22. CASE ProbeFails
  BY <1>22 DEF ProbeFails, Applies, Trouble
<1>23. CASE Names
  BY <1>23 DEF Names, Applies, Trouble
<1>24. CASE Configures
  BY <1>24 DEF Configures, Trouble
<1>25. CASE AddsGit
  BY <1>25 DEF AddsGit, Trouble
<1>26. CASE MarkReady
  BY <1>26 DEF MarkReady, Applies, Trouble
<1>27. CASE Announces
  BY <1>27 DEF Announces
<1>28. CASE PushStores
  BY <1>28 DEF PushStores
<1>29. CASE PushApplies
  BY <1>29 DEF PushApplies, Applies, Trouble
<1>30. CASE UNCHANGED vars
  BY <1>30 DEF vars
<1>31. QED
  BY <1>1, <1>2, <1>3, <1>4, <1>5, <1>6, <1>7, <1>8, <1>9, <1>10, <1>11, <1>12, <1>13,
     <1>14, <1>15, <1>16, <1>17, <1>18, <1>19, <1>20, <1>21, <1>22, <1>23, <1>24,
     <1>25, <1>26, <1>27, <1>28, <1>29, <1>30
  DEF Next, Bootstrap, Download, Verify, Install, SetsUp, Push

(* A launch takes at most Size + 17 steps of the bootstrap, and has ended  *)
(* when none is left; pushes of name servers do not prolong it             *)
(* (rootfs.rs:108-188, bootstrap.rs:69-135).                               *)
THEOREM LaunchesRunOut ==
  Spec => /\ [](StepsLeft \in Nat /\ (StepsLeft = 0 <=> pc \in {"off", "failed", "done"}))
          /\ [][\/ Launch /\ StepsLeft' = Size + 17
                \/ (Push \/ Closed \/ Killed) /\ StepsLeft' <= StepsLeft
                \/ StepsLeft' < StepsLeft]_vars
<1>1. InstallInv => StepsLeft \in Nat /\ (StepsLeft = 0 <=> pc \in {"off", "failed", "done"})
  BY GuestAssumption DEF InstallInv, InstallationTypeOK, StepsLeft, Places
<1>2. InstallInv /\ [Next]_vars =>
        [\/ Launch /\ StepsLeft' = Size + 17
         \/ (Push \/ Closed \/ Killed) /\ StepsLeft' <= StepsLeft
         \/ StepsLeft' < StepsLeft]_vars
  BY FewerLeft
<1>3. IInv => InstallInv
  BY DEF IInv
<1>4. QED
  BY <1>1, <1>2, <1>3, InductiveInvariant, PTL DEF Spec

-----------------------------------------------------------------------------
(* What is on the disk, or coming, is not the pinned image's; the old tree *)
(* is in the way.                                                          *)
Spoiled == \/ archive.have > 0 /\ archive.of # version
           \/ pc = "body" /\ left > 0 /\ source # version

Blocked == pc = "swap" /\ dest # NoTree

(* Every trouble and every update costs two launches at most: the one it   *)
(* hits and the one that finds what it left.                               *)
Burden ==
  2 * (MaxTroubles - troubles) + 2 * (MaxVersion - version)
    + (IF Spoiled \/ Blocked THEN 1 ELSE 0)

(* What is verified is complete, and a complete archive nobody is at work  *)
(* on is a leftover.                                                       *)
Complete ==
  /\ pc = "verify" => archive.have = Size
  /\ archive.have = Size => leftover \/ pc \in {"body", "verify"} \cup Unpacking

(* A launch that ends well has announced the guest or found it unusable.   *)
Served == pc = "done" => ready \/ (marker = version /\ dest.is = "holes")

LEMMA NextComplete ==
  ASSUME InstallInv, Complete, [Next]_vars
  PROVE  Complete'
<1>. USE GuestAssumption
     DEF InstallInv, InstallationTypeOK, Completes, Complete, Unpacking, Empty, disk, response,
         installation, network, setup
<1>1. CASE Launch
  BY <1>1 DEF Launch
<1>2. CASE GivesUp
  BY <1>2 DEF GivesUp, Trouble, Leaves
<1>3. CASE Killed
  BY <1>3 DEF Killed, Trouble, Gone, Leaves
<1>4. CASE Closed
  BY <1>4 DEF Closed, Gone
<1>5. CASE Check
  BY <1>5 DEF Check, IsReady
<1>6. CASE Restarts
  BY <1>6 DEF Restarts, Answers, Trouble
<1>7. CASE Resumes
  BY <1>7 DEF Resumes, Answers, Trouble
<1>8. CASE RangeRefused
  BY <1>8 DEF RangeRefused
<1>9. CASE Downloads
  BY <1>9 DEF Downloads
<1>10. CASE Downloaded
  BY <1>10 DEF Downloaded
<1>11. CASE Verified
  BY <1>11 DEF Verified, ChecksumAgrees
<1>12. CASE Mismatch
  BY <1>12, Removal DEF Mismatch, ChecksumAgrees
<1>13. CASE UnpackBegins
  BY <1>13 DEF UnpackBegins
<1>14. CASE Unpacked
  BY <1>14 DEF Unpacked, Trouble
<1>15. CASE ClearBegins
  BY <1>15 DEF ClearBegins
<1>16. CASE Cleared
  BY <1>16 DEF Cleared, Trouble
<1>17. CASE Swap
  BY <1>17 DEF Swap
<1>18. CASE SwapFails
  BY <1>18 DEF SwapFails, Leaves
<1>19. CASE Mark
  BY <1>19 DEF Mark
<1>20. CASE Discard
  BY <1>20, Removal DEF Discard
<1>21. CASE Probe
  BY <1>21 DEF Probe
<1>22. CASE ProbeFails
  BY <1>22 DEF ProbeFails, Applies, Trouble
<1>23. CASE Names
  BY <1>23 DEF Names, Applies, Trouble
<1>24. CASE Configures
  BY <1>24 DEF Configures, Trouble
<1>25. CASE AddsGit
  BY <1>25 DEF AddsGit, Trouble
<1>26. CASE MarkReady
  BY <1>26 DEF MarkReady, Applies, Trouble
<1>27. CASE Announces
  BY <1>27 DEF Announces
<1>28. CASE PushStores
  BY <1>28 DEF PushStores
<1>29. CASE PushApplies
  BY <1>29 DEF PushApplies, Applies, Trouble
<1>30. CASE UNCHANGED vars
  BY <1>30 DEF vars
<1>31. QED
  BY <1>1, <1>2, <1>3, <1>4, <1>5, <1>6, <1>7, <1>8, <1>9, <1>10, <1>11, <1>12, <1>13,
     <1>14, <1>15, <1>16, <1>17, <1>18, <1>19, <1>20, <1>21, <1>22, <1>23, <1>24,
     <1>25, <1>26, <1>27, <1>28, <1>29, <1>30
  DEF Next, Bootstrap, Download, Verify, Install, SetsUp, Push

LEMMA NextServed ==
  ASSUME InstallInv, Served, [Next]_vars
  PROVE  Served'
<1>. USE GuestAssumption
     DEF InstallInv, InstallationTypeOK, Served, Swapped, Marked, Installed, Setting, disk,
         response, installation, network, setup
<1>1. CASE Launch
  BY <1>1 DEF Launch
<1>2. CASE GivesUp
  BY <1>2 DEF GivesUp, Trouble, Leaves
<1>3. CASE Killed
  BY <1>3 DEF Killed, Trouble, Gone, Leaves
<1>4. CASE Closed
  BY <1>4 DEF Closed, Gone
<1>5. CASE Check
  BY <1>5 DEF Check, IsReady
<1>6. CASE Restarts
  BY <1>6 DEF Restarts, Answers, Trouble
<1>7. CASE Resumes
  BY <1>7 DEF Resumes, Answers, Trouble
<1>8. CASE RangeRefused
  BY <1>8 DEF RangeRefused
<1>9. CASE Downloads
  BY <1>9 DEF Downloads
<1>10. CASE Downloaded
  BY <1>10 DEF Downloaded
<1>11. CASE Verified
  BY <1>11 DEF Verified, ChecksumAgrees
<1>12. CASE Mismatch
  BY <1>12 DEF Mismatch, Removes, Leaves, Trouble, ChecksumAgrees
<1>13. CASE UnpackBegins
  BY <1>13 DEF UnpackBegins
<1>14. CASE Unpacked
  BY <1>14 DEF Unpacked, Trouble
<1>15. CASE ClearBegins
  BY <1>15 DEF ClearBegins
<1>16. CASE Cleared
  BY <1>16 DEF Cleared, Trouble
<1>17. CASE Swap
  BY <1>17 DEF Swap
<1>18. CASE SwapFails
  BY <1>18 DEF SwapFails, Leaves
<1>19. CASE Mark
  BY <1>19 DEF Mark
<1>20. CASE Discard
  BY <1>20 DEF Discard, Removes, Leaves, Trouble
<1>21. CASE Probe
  BY <1>21 DEF Probe
<1>22. CASE ProbeFails
  BY <1>22 DEF ProbeFails, Applies, Trouble
<1>23. CASE Names
  BY <1>23 DEF Names, Applies, Trouble
<1>24. CASE Configures
  BY <1>24 DEF Configures, Trouble
<1>25. CASE AddsGit
  BY <1>25 DEF AddsGit, Trouble
<1>26. CASE MarkReady
  BY <1>26 DEF MarkReady, Applies, Trouble
<1>27. CASE Announces
  BY <1>27 DEF Announces
<1>28. CASE PushStores
  BY <1>28 DEF PushStores
<1>29. CASE PushApplies
  BY <1>29 DEF PushApplies, Applies, Trouble
<1>30. CASE UNCHANGED vars
  BY <1>30 DEF vars
<1>31. QED
  BY <1>1, <1>2, <1>3, <1>4, <1>5, <1>6, <1>7, <1>8, <1>9, <1>10, <1>11, <1>12, <1>13,
     <1>14, <1>15, <1>16, <1>17, <1>18, <1>19, <1>20, <1>21, <1>22, <1>23, <1>24,
     <1>25, <1>26, <1>27, <1>28, <1>29, <1>30
  DEF Next, Bootstrap, Download, Verify, Install, SetsUp, Push

Marred == Spoiled \/ Blocked

LEMMA Cheaper ==
  ASSUME NEW a \in Nat, NEW b \in Nat, NEW t \in Nat, NEW v \in Nat, NEW s \in Nat,
         NEW w \in Nat, NEW m \in {0, 1}, NEW n \in {0, 1}
  PROVE  LET before == 2 * (a - t) + 2 * (b - v) + m
             after  == 2 * (a - s) + 2 * (b - w) + n
         IN /\ s = t + 1 /\ w = v => after < before
            /\ s = t /\ w = v + 1 => after < before
            /\ s = t /\ w = v /\ n <= m => after <= before
            /\ s = t /\ w = v /\ n < m => after < before
OBVIOUS

LEMMA BurdenFalls ==
  ASSUME InstallInv, InstallInv'
  PROVE  /\ troubles' = troubles + 1 /\ version' = version => Burden' < Burden
         /\ troubles' = troubles /\ version' = version + 1 => Burden' < Burden
         /\ UNCHANGED <<troubles, version>> =>
              /\ (Marred' => Marred) => Burden' <= Burden
              /\ Marred /\ ~Marred' => Burden' < Burden
<1>1. /\ MaxTroubles \in Nat /\ MaxVersion \in Nat
      /\ troubles \in Nat /\ version \in Nat /\ troubles' \in Nat /\ version' \in Nat
  BY GuestAssumption DEF InstallInv, InstallationTypeOK
<1>2. PICK m \in {0, 1} : m = IF Marred THEN 1 ELSE 0
  OBVIOUS
<1>3. PICK n \in {0, 1} : n = IF Marred' THEN 1 ELSE 0
  OBVIOUS
<1>4. PICK a \in Nat, b \in Nat, t \in Nat, v \in Nat, s \in Nat, w \in Nat :
        /\ a = MaxTroubles /\ b = MaxVersion
        /\ t = troubles /\ v = version /\ s = troubles' /\ w = version'
  BY <1>1, Zenon
<1>5. /\ Burden = 2 * (a - t) + 2 * (b - v) + m
      /\ Burden' = 2 * (a - s) + 2 * (b - w) + n
  BY <1>2, <1>3, <1>4 DEF Burden, Marred
<1>6. ((Marred' => Marred) => n <= m) /\ (Marred /\ ~Marred' => n < m)
  BY <1>2, <1>3
<1>7. (troubles' = troubles <=> s = t) /\ (version' = version <=> w = v)
  BY <1>4, Zenon
<1>8. (troubles' = troubles + 1 <=> s = t + 1) /\ (version' = version + 1 <=> w = v + 1)
  BY <1>4, Zenon
<1>. DEFINE before == 2 * (a - t) + 2 * (b - v) + m
            after  == 2 * (a - s) + 2 * (b - w) + n
<1>9. /\ s = t + 1 /\ w = v => after < before
      /\ s = t /\ w = v + 1 => after < before
      /\ s = t /\ w = v /\ n <= m => after <= before
      /\ s = t /\ w = v /\ n < m => after < before
  BY Cheaper
<1>10. Burden = before /\ Burden' = after
  BY <1>5
<1>. HIDE DEF before, after
<1>11. QED
  BY <1>6, <1>7, <1>8, <1>9, <1>10

(* A step uses up a trouble or an update, or only what they left.          *)
LEMMA StepPays ==
  ASSUME InstallInv, Complete, [Next]_vars
  PROVE  \/ troubles' = troubles + 1 /\ version' = version
         \/ troubles' = troubles /\ version' = version + 1 /\ pc' # "failed" /\ ~Killed
         \/ /\ UNCHANGED <<troubles, version>> /\ (Marred' => Marred) /\ ~Killed
            /\ pc # "failed" /\ pc' = "failed" =>
                 (Marred /\ ~Marred') \/ (leftover' /\ honours)
<1>. USE GuestAssumption
     DEF InstallInv, InstallationTypeOK, Completes, Checked, Complete, Marred, Spoiled,
         Blocked, Unpacking, Image, Empty, NoTree, disk, response, installation, network,
         setup
<1>0. ~Killed \/ (troubles' = troubles + 1 /\ version' = version)
  BY DEF Killed, Trouble
<1>1. CASE Launch
  BY <1>0, <1>1 DEF Launch
<1>2. CASE GivesUp
  BY <1>0, <1>2 DEF GivesUp, Trouble, Leaves
<1>3. CASE Killed
  BY <1>0, <1>3 DEF Killed, Trouble, Gone, Leaves
<1>4. CASE Closed
  BY <1>0, <1>4 DEF Closed, Gone
<1>5. CASE Check
  BY <1>0, <1>5 DEF Check, IsReady
<1>6. CASE Restarts
  BY <1>0, <1>6 DEF Restarts, Answers, Trouble
<1>7. CASE Resumes
  BY <1>0, <1>7 DEF Resumes, Answers, Trouble
<1>8. CASE RangeRefused
  BY <1>0, <1>8 DEF RangeRefused
<1>9. CASE Downloads
  BY <1>0, <1>9 DEF Downloads
<1>10. CASE Downloaded
  BY <1>0, <1>10 DEF Downloaded
<1>11. CASE Verified
  BY <1>0, <1>11 DEF Verified, ChecksumAgrees
<1>12. CASE Mismatch
  BY <1>0, <1>12 DEF Mismatch, Removes, Leaves, Trouble, ChecksumAgrees
<1>13. CASE UnpackBegins
  BY <1>0, <1>13 DEF UnpackBegins
<1>14. CASE Unpacked
  BY <1>0, <1>14 DEF Unpacked, Trouble
<1>15. CASE ClearBegins
  BY <1>0, <1>15 DEF ClearBegins
<1>16. CASE Cleared
  BY <1>0, <1>16 DEF Cleared, Trouble
<1>17. CASE Swap
  BY <1>0, <1>17 DEF Swap
<1>18. CASE SwapFails
  BY <1>0, <1>18 DEF SwapFails, Leaves
<1>19. CASE Mark
  BY <1>0, <1>19 DEF Mark
<1>20. CASE Discard
  BY <1>0, <1>20 DEF Discard, Removes, Leaves, Trouble
<1>21. CASE Probe
  BY <1>0, <1>21 DEF Probe
<1>22. CASE ProbeFails
  BY <1>0, <1>22 DEF ProbeFails, Applies, Trouble
<1>23. CASE Names
  BY <1>0, <1>23 DEF Names, Applies, Trouble
<1>24. CASE Configures
  BY <1>0, <1>24 DEF Configures, Trouble
<1>25. CASE AddsGit
  BY <1>0, <1>25 DEF AddsGit, Trouble
<1>26. CASE MarkReady
  BY <1>0, <1>26 DEF MarkReady, Applies, Trouble
<1>27. CASE Announces
  BY <1>0, <1>27 DEF Announces
<1>28. CASE PushStores
  BY <1>0, <1>28 DEF PushStores
<1>29. CASE PushApplies
  BY <1>0, <1>29 DEF PushApplies, Applies, Trouble
<1>30. CASE UNCHANGED vars
  BY <1>0, <1>30 DEF vars
<1>31. QED
  BY <1>1, <1>2, <1>3, <1>4, <1>5, <1>6, <1>7, <1>8, <1>9, <1>10, <1>11, <1>12, <1>13,
     <1>14, <1>15, <1>16, <1>17, <1>18, <1>19, <1>20, <1>21, <1>22, <1>23, <1>24,
     <1>25, <1>26, <1>27, <1>28, <1>29, <1>30
  DEF Next, Bootstrap, Download, Verify, Install, SetsUp, Push

LEMMA NextPays ==
  ASSUME InstallInv, Complete, [Next]_vars
  PROVE  /\ Burden' <= Burden
         /\ Killed \/ (pc # "failed" /\ pc' = "failed") =>
              Burden' < Burden \/ (leftover' /\ honours)
<1>1. InstallInv'
  BY NextInstallInv
<1>2. Burden \in Int /\ Burden' \in Int
  BY <1>1, GuestAssumption DEF InstallInv, InstallationTypeOK, Burden
<1>3. QED
  BY <1>1, <1>2, StepPays, BurdenFalls

(* Launches do not fail for ever (rootfs.rs:9-12): one that is killed or   *)
(* gives up has used up a trouble, an update, or what one of these left on *)
(* the disk, at most twice as many in all as there are of them; the one    *)
(* exception is the leftover that a server which honours ranges refuses to *)
(* complete. A launch that ends otherwise has announced the guest, or      *)
(* found it unpacked with holes.                                           *)
THEOREM FailuresRunOut ==
  Spec => /\ [](Burden \in 0 .. 2 * (MaxTroubles + MaxVersion))
          /\ [](pc = "done" => ready \/ (marker = version /\ dest.is = "holes"))
          /\ [][/\ Burden' <= Burden
                /\ Killed \/ (pc # "failed" /\ pc' = "failed") =>
                     Burden' < Burden \/ (leftover' /\ honours)]_vars
<1>1. Init => Complete /\ Served
  BY GuestAssumption DEF Init, Complete, Served, Empty
<1>2. InstallInv /\ Complete /\ Served /\ [Next]_vars => Complete' /\ Served'
  BY NextComplete, NextServed
<1>3. InstallInv => Burden \in 0 .. 2 * (MaxTroubles + MaxVersion)
  BY GuestAssumption DEF InstallInv, InstallationTypeOK, Burden
<1>4. InstallInv /\ Complete /\ [Next]_vars =>
        [/\ Burden' <= Burden
         /\ Killed \/ (pc # "failed" /\ pc' = "failed") =>
              Burden' < Burden \/ (leftover' /\ honours)]_vars
  BY NextPays
<1>5. IInv => InstallInv
  BY DEF IInv
<1>6. Served => (pc = "done" => ready \/ (marker = version /\ dest.is = "holes"))
  BY DEF Served
<1>7. QED
  BY <1>1, <1>2, <1>3, <1>4, <1>5, <1>6, InductiveInvariant, PTL DEF Spec
=============================================================================
