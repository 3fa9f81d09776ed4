--------------------------- MODULE PublicationProofs ---------------------------
(***************************************************************************)
(* For any number of generations and of calls: what rows refer to is in    *)
(* the store, what a generation refers to comes from one publication, and  *)
(* a publish that failed left no artifact.                                 *)
(***************************************************************************)
EXTENDS Publication, FiniteSetTheorems, TLAPS

PublishPc == {"lock", "download", "thumbnail", "upload", "commit", "fail"}
AvatarPc == {"read", "delete", "update"}
Pc == {"idle", "insert", "done"} \cup PublishPc \cup AvatarPc
Result == {"none", "ok", "nothing", "error", "error, file kept"} \cup CutOffResult
Ref == Call \cup {NoCall}

CallRecord == [pc : Pc, gen : Generation \cup {CHOOSE g \in Generation : TRUE},
               old : Ref, result : Result]

Kept == store \cup removed

--------------------------------------------------------------------------------
(* The inductive invariant.                                                *)

\* A call walks only through the steps of its own kind.
Allowed(c, p) ==
  /\ p \in PublishPc => c \in Publisher
  /\ p = "insert" => c \in Form
  /\ p \in AvatarPc => c \in Avatar

CallsInv ==
  /\ call \in [Call -> CallRecord]
  /\ \A c \in Call : /\ Allowed(c, call[c].pc)
                     /\ call[c].pc # "done" => call[c].result = "none"

\* A row exists only once the call that inserts it has stored the file and is past
\* the point where it would compensate, unless the answer to its commit was lost.
RowsInv ==
  /\ contents \subseteq Call /\ projects \subseteq Call
  /\ \A c \in Call : call[c].pc \in {"commit", "insert"} => <<c, "file">> \in Kept
  /\ \A c \in contents \cup projects :
       \/ c \in ackLost
       \/ call[c].pc = "done" /\ <<c, "file">> \in Kept

\* An avatar is stored before anyone can name it: users.avatar_url, and the copy of
\* it that an upload is about to delete, name only the objects of ended uploads.
AvatarInv ==
  /\ avatarUrl \in Ref
  /\ avatarUrl # NoCall => call[avatarUrl].pc = "done"
  /\ \A c \in Call :
       /\ call[c].pc \in AvatarPc => <<c, "avatar">> \in Kept
       /\ call[c].old # NoCall => call[call[c].old].pc = "done"

\* The second part of RowsHaveTheirFiles.
AvatarLinked ==
  \/ avatarUrl = NoCall
  \/ <<avatarUrl, "avatar">> \in Kept
  \/ \E c \in Avatar : call[c].pc = "update"
                       \/ call[c].result = "cut off, old avatar deleted"

\* Publishers store artifacts and thumbnails only, and one that reports an error has
\* ended with its artifact deleted.
FailureInv ==
  /\ \A o \in store : /\ o \in Call \X {"file", "thumbnail", "upload", "avatar"}
                      /\ o[1] \in Publisher => o[2] \in {"file", "thumbnail"}
  /\ \A c \in Publisher :
       call[c].result = "error" => <<c, "file">> \notin store

FilesInv == CallsInv /\ RowsInv /\ AvatarInv /\ AvatarLinked /\ FailureInv

\* The invariant says that rows have their files, and that a publish that failed
\* left its thumbnail only.
LEMMA FilesInvImplies ==
  FilesInv => RowsHaveTheirFiles /\ FailureLeavesOnlyTheThumbnail
<1> SUFFICES ASSUME FilesInv
             PROVE  RowsHaveTheirFiles /\ FailureLeavesOnlyTheThumbnail
  OBVIOUS
<1>1. RowsHaveTheirFiles
  BY DEF FilesInv, RowsInv, AvatarLinked, RowsHaveTheirFiles, Kept
<1>2. ASSUME NEW c \in Publisher, call[c].result = "error", NEW o \in store, o[1] = c
      PROVE  o = <<c, "thumbnail">>
  BY <1>2 DEF FilesInv, FailureInv
<1> QED
  BY <1>1, <1>2 DEF FailureLeavesOnlyTheThumbnail

\* The first state satisfies the invariant.
LEMMA FilesInvInit == Init => FilesInv
<1> SUFFICES ASSUME Init
             PROVE  FilesInv
  OBVIOUS
<1>1. \A c \in Call : call[c].pc = "idle" /\ call[c].old = NoCall /\ call[c].result = "none"
  BY DEF Init
<1>2. call \in [Call -> CallRecord]
  BY DEF Init, CallRecord, Pc, Ref, Result
<1> QED
  BY <1>1, <1>2
     DEF Init, FilesInv, CallsInv, Allowed, RowsInv, AvatarInv, AvatarLinked, FailureInv,
         Publisher, PublishPc, AvatarPc, Ref

--------------------------------------------------------------------------------
(* How a call moves.                                                       *)

\* Call c goes to p with old value o and result r; no other call moves.
Moved(c, p, o, r) ==
  /\ call' \in [Call -> CallRecord]
  /\ call'[c].pc = p /\ call'[c].old = o /\ call'[c].result = r
  /\ \A d \in Call \ {c} : call'[d] = call[d]

\* Goto moves a call.
LEMMA GotoMoves ==
  ASSUME CallsInv, NEW c \in Call, NEW p \in Pc, Goto(c, p)
  PROVE  Moved(c, p, call[c].old, call[c].result)
BY DEF CallsInv, CallRecord, Goto, Moved

\* Return ends a call and drops the URL it had read.
LEMMA ReturnMoves ==
  ASSUME CallsInv, NEW c \in Call, NEW r \in Result, Return(c, r)
  PROVE  Moved(c, "done", NoCall, r)
<1> DEFINE x == [call[c] EXCEPT !.pc = "done", !.result = r, !.old = NoCall]
<1>1. call \in [Call -> CallRecord]
  BY DEF CallsInv
<1>2. call' = [call EXCEPT ![c] = x]
  BY <1>1 DEF Return
<1>3. x \in CallRecord /\ x.pc = "done" /\ x.old = NoCall /\ x.result = r
  BY <1>1 DEF CallRecord, Pc, Ref
<1> HIDE DEF x
<1> QED
  BY <1>1, <1>2, <1>3 DEF Moved

\* A step of call c that loses no object but its own artifact: the new rows are its
\* own, it enters the commit and the insert with its file stored and the avatar steps
\* with its avatar stored, and it does not report an error over an artifact it kept.
StepOf(c, p, o, r) ==
  /\ call[c].pc # "done"
  /\ Moved(c, p, o, r)
  /\ Allowed(c, p) /\ (p # "done" => r = "none")
  /\ o \in {NoCall, call[c].old, avatarUrl}
  /\ \A x \in Kept : x = <<c, "file">> \/ x \in Kept'
  /\ \A x \in store' \ store :
       \/ x \in {<<c, "file">>, <<c, "thumbnail">>}
       \/ x \in {<<c, "upload">>, <<c, "avatar">>} /\ c \notin Publisher
  /\ contents' \subseteq contents \cup {c} /\ projects' \subseteq projects \cup {c}
  /\ ackLost \subseteq ackLost'
  /\ c \in contents' \/ c \in projects'
       => \/ c \in ackLost'
          \/ p = "done" /\ <<c, "file">> \in Kept'
  /\ p \in {"commit", "insert"} => <<c, "file">> \in Kept'
  /\ p \in AvatarPc => <<c, "avatar">> \in Kept'
  /\ avatarUrl' # avatarUrl => avatarUrl' = c /\ p = "done" /\ <<c, "avatar">> \in Kept'
  /\ call[c].pc = "update" => avatarUrl' = c \/ r = "cut off, old avatar deleted"
  /\ c \in Publisher /\ r = "error" => <<c, "file">> \notin store'

\* Such a step preserves the invariant.
LEMMA StepKeeps ==
  ASSUME FilesInv, NEW c \in Call, NEW p, NEW o, NEW r, StepOf(c, p, o, r)
  PROVE  FilesInv'
<1>1. /\ call \in [Call -> CallRecord] /\ call' \in [Call -> CallRecord]
      /\ call'[c].pc = p /\ call'[c].old = o /\ call'[c].result = r
      /\ \A d \in Call \ {c} : call'[d] = call[d]
      /\ call[c].pc # "done" /\ call[c].result = "none"
  BY DEF FilesInv, CallsInv, StepOf, Moved
<1>2. CallsInv'
  BY <1>1 DEF FilesInv, CallsInv, StepOf, Allowed
<1>3. RowsInv'
  BY <1>1 DEF FilesInv, RowsInv, StepOf
<1>4. AvatarInv'
  <2>1. avatarUrl \in Ref /\ avatarUrl' \in Ref
    BY DEF FilesInv, AvatarInv, StepOf, Ref
  <2>2. avatarUrl' # NoCall => call'[avatarUrl'].pc = "done"
    BY <1>1, <2>1 DEF FilesInv, AvatarInv, StepOf, Ref
  <2>3. ASSUME NEW d \in Call, call'[d].pc \in AvatarPc
        PROVE  <<d, "avatar">> \in Kept'
    BY <1>1, <2>3 DEF FilesInv, AvatarInv, StepOf
  <2>4. ASSUME NEW d \in Call, call'[d].old # NoCall
        PROVE  call'[call'[d].old].pc = "done"
    <3>1. call'[d].old = call[d].old \/ call'[d].old = avatarUrl
      BY <1>1, <2>4 DEF StepOf
    <3>2. call[d].old \in Ref
      BY <1>1 DEF CallRecord
    <3> QED
      BY <1>1, <2>1, <2>4, <3>1, <3>2 DEF FilesInv, AvatarInv, Ref
  <2> QED
    BY <2>1, <2>2, <2>3, <2>4 DEF AvatarInv
<1>5. AvatarLinked'
  <2>1. CASE avatarUrl' = c /\ <<c, "avatar">> \in Kept'
    BY <2>1 DEF AvatarLinked
  <2>2. CASE avatarUrl' = avatarUrl /\ avatarUrl' # c
    <3>1. CASE avatarUrl = NoCall \/ <<avatarUrl, "avatar">> \in Kept
      BY <2>2, <3>1 DEF StepOf, AvatarLinked
    <3>2. ASSUME NEW d \in Avatar, call[d].pc = "update"
                                   \/ call[d].result = "cut off, old avatar deleted"
          PROVE  AvatarLinked'
      BY <1>1, <2>2, <3>2, PublicationAssumption DEF StepOf, AvatarLinked
    <3> QED
      BY <3>1, <3>2 DEF FilesInv, AvatarLinked
  <2> QED
    BY <1>1, <2>1, <2>2, PublicationAssumption DEF FilesInv, AvatarInv, StepOf
<1>6. FailureInv'
  <2>1. ASSUME NEW x \in store' \ store
        PROVE  /\ x \in Call \X {"file", "thumbnail", "upload", "avatar"}
               /\ x[1] = c
               /\ x[1] \in Publisher => x[2] \in {"file", "thumbnail"}
    <3>1. CASE x \in {<<c, "file">>, <<c, "thumbnail">>}
      BY <3>1
    <3>2. CASE x \in {<<c, "upload">>, <<c, "avatar">>} /\ c \notin Publisher
      BY <3>2
    <3> QED
      BY <2>1, <3>1, <3>2 DEF StepOf
  <2>2. ASSUME NEW d \in Publisher, call'[d].result = "error"
        PROVE  <<d, "file">> \notin store'
    <3>1. CASE d = c
      BY <1>1, <2>2, <3>1 DEF StepOf
    <3>2. CASE d # c
      <4>1. call[d].result = "error"
        BY <1>1, <2>2, <3>2 DEF Publisher
      <4>2. <<d, "file">> \notin store
        BY <4>1 DEF FilesInv, FailureInv
      <4>3. <<d, "file">> \notin store' \ store
        BY <2>1, <3>2
      <4> QED
        BY <4>2, <4>3
    <3> QED
      BY <3>1, <3>2
  <2> QED
    BY <2>1, <2>2 DEF FilesInv, FailureInv
<1> QED
  BY <1>2, <1>3, <1>4, <1>5, <1>6 DEF FilesInv

\* A step that only moves a call, and not into a commit, an insert or an avatar step
\* it was not in, preserves the invariant.
LEMMA QuietStepKeeps ==
  ASSUME FilesInv, NEW c \in Call, NEW p, NEW o, NEW r,
         call[c].pc # "done", Moved(c, p, o, r), Allowed(c, p), p # "done" => r = "none",
         p \notin {"commit", "insert"},
         o \in {NoCall, call[c].old, avatarUrl},
         p \in AvatarPc => call[c].pc \in AvatarPc,
         call[c].pc = "update" => r = "cut off, old avatar deleted",
         c \in Publisher => r # "error",
         store' = store, rowVars' = rowVars, avatarUrl' = avatarUrl,
         removed' = removed, ackLost' = ackLost
  PROVE  FilesInv'
<1>1. StepOf(c, p, o, r)
  BY DEF StepOf, FilesInv, RowsInv, AvatarInv, Kept, rowVars
<1> QED
  BY <1>1, StepKeeps

\* A publisher that only moves on, or gives up, preserves the invariant.
LEMMA PublisherMoves ==
  ASSUME FilesInv, NEW c \in Publisher, call[c].pc \in {"idle"} \cup PublishPc,
         NEW p \in PublishPc \ {"commit"}, Moved(c, p, call[c].old, call[c].result),
         store' = store, rowVars' = rowVars, avatarUrl' = avatarUrl,
         removed' = removed, ackLost' = ackLost
  PROVE  FilesInv'
<1>1. /\ c \in Call /\ Allowed(c, p) /\ p # "insert" /\ p \notin AvatarPc
      /\ call[c].pc # "done" /\ call[c].pc # "update"
  BY DEF Publisher, Allowed, PublishPc, AvatarPc
<1>2. call[c].result = "none"
  BY <1>1 DEF FilesInv, CallsInv
<1> QED
  BY <1>1, <1>2, QuietStepKeeps

\* Anyone may end where it stands, but a publisher not with a plain error, and an
\* avatar upload that deleted the old object only as one that did.
LEMMA EndKeeps ==
  ASSUME FilesInv, NEW c \in Call, call[c].pc # "done",
         NEW r \in Result, Moved(c, "done", NoCall, r),
         call[c].pc = "update" => r = "cut off, old avatar deleted",
         c \in Publisher => r # "error",
         store' = store, rowVars' = rowVars, avatarUrl' = avatarUrl,
         removed' = removed, ackLost' = ackLost
  PROVE  FilesInv'
<1>1. Allowed(c, "done") /\ "done" \notin AvatarPc
  BY DEF Allowed, PublishPc, AvatarPc
<1> QED
  BY <1>1, QuietStepKeeps

--------------------------------------------------------------------------------
(* The actions.                                                            *)

\* Where a call may stand, and what follows for its rows.
LEMMA CallFacts ==
  ASSUME FilesInv, NEW c \in Call, call[c].pc # "done"
  PROVE  /\ CallsInv /\ Allowed(c, call[c].pc) /\ call[c].result = "none"
         /\ c \in contents \/ c \in projects => c \in ackLost
         /\ call[c].pc \in {"commit", "insert"} => <<c, "file">> \in Kept
         /\ call[c].pc \in AvatarPc => <<c, "avatar">> \in Kept
BY DEF FilesInv, CallsInv, RowsInv, AvatarInv

\* publish up to its uploads.
LEMMA PublishStartKeeps ==
  ASSUME FilesInv, NEW c \in Call,
         StartPublish(c) \/ LockGeneration(c) \/ DownloadArtifact(c) \/ StepFails(c)
  PROVE  FilesInv'
<1>1. /\ call[c].pc \in {"idle", "lock", "download", "thumbnail", "upload", "commit"}
      /\ store' = store /\ rowVars' = rowVars /\ avatarUrl' = avatarUrl
      /\ removed' = removed /\ ackLost' = ackLost
  BY DEF StartPublish, LockGeneration, DownloadArtifact, StepFails
<1>2. /\ CallsInv /\ call \in [Call -> CallRecord] /\ c \in Publisher
      /\ call[c].pc \in {"idle"} \cup PublishPc
  BY <1>1, CallFacts DEF CallsInv, StartPublish, LockGeneration, DownloadArtifact,
                         StepFails, Allowed, PublishPc
<1>3. CASE StartPublish(c)
  <2>1. PICK g \in Generation : call' = [call EXCEPT ![c].pc = "lock", ![c].gen = g]
    BY <1>3 DEF StartPublish
  <2>2. Moved(c, "lock", call[c].old, call[c].result)
    <3> DEFINE x == [call[c] EXCEPT !.pc = "lock", !.gen = g]
    <3>1. x \in CallRecord /\ x.pc = "lock" /\ x.old = call[c].old /\ x.result = call[c].result
      BY <1>2 DEF CallRecord, Pc, PublishPc
    <3>2. call' = [call EXCEPT ![c] = x]
      BY <2>1
    <3> HIDE DEF x
    <3> QED
      BY <1>2, <3>1, <3>2 DEF Moved
  <2>3. "lock" \in PublishPc \ {"commit"}
    BY DEF PublishPc
  <2> QED
    BY <1>1, <1>2, <2>2, <2>3, PublisherMoves
<1>4. ASSUME NEW p \in {"download", "thumbnail", "fail"}, Goto(c, p)
      PROVE  FilesInv'
  <2>1. p \in PublishPc \ {"commit"} /\ p \in Pc
    BY DEF PublishPc, Pc
  <2>2. Moved(c, p, call[c].old, call[c].result)
    BY <1>2, <1>4, <2>1, GotoMoves
  <2> QED
    BY <1>1, <1>2, <2>1, <2>2, PublisherMoves
<1>5. CASE Return(c, "nothing")
  <2>1. Moved(c, "done", NoCall, "nothing") /\ "nothing" \in Result
    BY <1>2, <1>5, ReturnMoves DEF Result
  <2> QED
    BY <1>1, <2>1, EndKeeps
<1> QED
  BY <1>3, <1>4, <1>5 DEF LockGeneration, DownloadArtifact, StepFails

\* The uploads of publish: the artifact is stored when the commit is reached.
LEMMA PublishUploadKeeps ==
  ASSUME FilesInv, NEW c \in Call, ResolveThumbnail(c) \/ UploadArtifact(c)
  PROVE  FilesInv'
<1>1. /\ call[c].pc \in {"thumbnail", "upload"}
      /\ rowVars' = rowVars /\ avatarUrl' = avatarUrl
      /\ removed' = removed /\ ackLost' = ackLost
  BY DEF ResolveThumbnail, UploadArtifact
<1>2. /\ CallsInv /\ c \in Publisher /\ call[c].result = "none"
      /\ call[c].pc \in {"idle"} \cup PublishPc
      /\ c \in contents \/ c \in projects => c \in ackLost
  BY <1>1, CallFacts DEF Allowed, PublishPc
<1>3. CASE Goto(c, "fail") /\ UNCHANGED store
  <2>1. "fail" \in PublishPc \ {"commit"} /\ "fail" \in Pc
    BY DEF PublishPc, Pc
  <2>2. Moved(c, "fail", call[c].old, call[c].result)
    BY <1>2, <1>3, <2>1, GotoMoves
  <2> QED
    BY <1>1, <1>2, <1>3, <2>1, <2>2, PublisherMoves
<1>4. ASSUME NEW p \in {"upload", "commit"}, Goto(c, p),
             NEW k \in {"thumbnail", "file"}, store' = store \cup {<<c, k>>},
             p = "commit" => k = "file"
      PROVE  FilesInv'
  <2>1. p \in Pc /\ Allowed(c, p) /\ p \notin AvatarPc
    BY <1>2 DEF PublishPc, AvatarPc, Pc, Allowed
  <2>2. Moved(c, p, call[c].old, "none")
    BY <1>2, <1>4, <2>1, GotoMoves
  <2>3. /\ \A x \in Kept : x \in Kept'
        /\ \A x \in store' \ store : x \in {<<c, "file">>, <<c, "thumbnail">>}
        /\ p = "commit" => <<c, "file">> \in Kept'
    BY <1>1, <1>4 DEF Kept
  <2>4. StepOf(c, p, call[c].old, "none")
    BY <1>1, <1>2, <1>4, <2>1, <2>2, <2>3 DEF StepOf, rowVars
  <2> QED
    BY <2>4, StepKeeps
<1> QED
  BY <1>3, <1>4 DEF ResolveThumbnail, UploadArtifact

\* The commit makes the rows visible, whether or not its answer arrives.
LEMMA CommitKeeps ==
  ASSUME FilesInv, NEW c \in Call, CommitPublication(c) \/ CommitAnswerLost(c)
  PROVE  FilesInv'
<1>1. /\ call[c].pc = "commit"
      /\ contents' = contents \cup {c} /\ projects' = projects \cup {c}
      /\ store' = store /\ avatarUrl' = avatarUrl /\ removed' = removed
  BY DEF CommitPublication, CommitAnswerLost, Publish
<1>2. /\ CallsInv /\ c \in Publisher /\ call[c].result = "none"
      /\ <<c, "file">> \in Kept
  BY <1>1, CallFacts DEF Allowed, PublishPc
<1>3. CASE CommitPublication(c)
  <2>1. Moved(c, "done", NoCall, "ok") /\ ackLost' = ackLost
    BY <1>2, <1>3, ReturnMoves DEF CommitPublication, Result
  <2>2. Allowed(c, "done") /\ "done" \notin AvatarPc
    BY DEF Allowed, PublishPc, AvatarPc
  <2>3. StepOf(c, "done", NoCall, "ok")
    BY <1>1, <1>2, <2>1, <2>2 DEF StepOf, Kept
  <2> QED
    BY <2>3, StepKeeps
<1>4. CASE CommitAnswerLost(c)
  <2>1. "fail" \in Pc /\ Allowed(c, "fail") /\ "fail" \notin AvatarPc
    BY <1>2 DEF Pc, Allowed, PublishPc, AvatarPc
  <2>2. Moved(c, "fail", call[c].old, "none") /\ ackLost' = ackLost \cup {c}
    BY <1>2, <1>4, <2>1, GotoMoves DEF CommitAnswerLost
  <2>3. StepOf(c, "fail", call[c].old, "none")
    BY <1>1, <1>2, <2>1, <2>2 DEF StepOf, Kept
  <2> QED
    BY <2>3, StepKeeps
<1> QED
  BY <1>3, <1>4

\* The compensation deletes the artifact of a call that has no row, or whose row is
\* that of a commit with a lost answer.
LEMMA CompensateKeeps ==
  ASSUME FilesInv, NEW c \in Call, CompensateUploadedFiles(c)
  PROVE  FilesInv'
<1>1. /\ call[c].pc = "fail" /\ rowVars' = rowVars /\ avatarUrl' = avatarUrl
      /\ removed' = removed /\ ackLost' = ackLost
  BY DEF CompensateUploadedFiles
<1>2. CallsInv /\ (c \in contents \/ c \in projects => c \in ackLost)
  BY <1>1, CallFacts
<1>3. CASE store' = store \ {<<c, "file">>} /\ Return(c, "error")
  <2>1. Moved(c, "done", NoCall, "error")
    BY <1>2, <1>3, ReturnMoves DEF Result
  <2>2. Allowed(c, "done") /\ "done" \notin AvatarPc
    BY DEF Allowed, PublishPc, AvatarPc
  <2>3. /\ \A x \in Kept : x = <<c, "file">> \/ x \in Kept'
        /\ store' \ store = {} /\ <<c, "file">> \notin store'
    BY <1>1, <1>3 DEF Kept
  <2>4. StepOf(c, "done", NoCall, "error")
    BY <1>1, <1>2, <2>1, <2>2, <2>3 DEF StepOf, rowVars
  <2> QED
    BY <2>4, StepKeeps
<1>4. CASE store' = store /\ Return(c, "error, file kept")
  <2>1. Moved(c, "done", NoCall, "error, file kept") /\ "error, file kept" \in Result
    BY <1>2, <1>4, ReturnMoves DEF Result
  <2> QED
    BY <1>1, <1>4, <2>1, EndKeeps
<1> QED
  BY <1>3, <1>4 DEF CompensateUploadedFiles

\* A call that is cut off leaves everything as it stands.
LEMMA CutOffKeeps ==
  ASSUME FilesInv, NEW c \in Call, CutOff(c)
  PROVE  FilesInv'
<1> DEFINE r == IF call[c].pc = "update" THEN "cut off, old avatar deleted" ELSE "cut off"
<1>1. /\ call[c].pc # "done" /\ store' = store /\ rowVars' = rowVars
      /\ avatarUrl' = avatarUrl /\ removed' = removed /\ ackLost' = ackLost
      /\ Return(c, r)
  BY DEF CutOff
<1>2. /\ r \in Result /\ r # "error"
      /\ call[c].pc = "update" => r = "cut off, old avatar deleted"
  BY DEF Result, CutOffResult
<1> HIDE DEF r
<1>3. Moved(c, "done", NoCall, r)
  BY <1>1, <1>2, CallFacts, ReturnMoves
<1> QED
  BY <1>1, <1>2, <1>3, EndKeeps

\* The admin's form and upload store their objects before any row names them.
LEMMA FormKeeps ==
  ASSUME FilesInv, NEW c \in Call, FormUpload(c) \/ FormInsert(c) \/ AdminUpload(c)
  PROVE  FilesInv'
<1>1. /\ call[c].pc \in {"idle", "insert"} /\ contents' = contents
      /\ avatarUrl' = avatarUrl /\ removed' = removed /\ ackLost' = ackLost
  BY DEF FormUpload, FormInsert, AdminUpload, rowVars
<1>2. /\ CallsInv /\ c \in Form /\ c \notin Publisher /\ call[c].result = "none"
      /\ c \in contents \/ c \in projects => c \in ackLost
      /\ call[c].pc = "insert" => <<c, "file">> \in Kept
  BY <1>1, CallFacts DEF FormUpload, FormInsert, AdminUpload, Allowed, Publisher
<1>3. Allowed(c, "done") /\ "done" \notin AvatarPc
  BY DEF Allowed, PublishPc, AvatarPc
<1>4. ASSUME NEW objects \in SUBSET {<<c, "file">>, <<c, "thumbnail">>, <<c, "upload">>},
             store' = store \cup objects, NEW r \in {"ok", "error"}, Return(c, r),
             \/ projects' = projects
             \/ projects' = projects \cup {c} /\ call[c].pc = "insert"
      PROVE  FilesInv'
  <2>1. Moved(c, "done", NoCall, r)
    BY <1>2, <1>4, ReturnMoves DEF Result
  <2>2. /\ \A x \in Kept : x \in Kept'
        /\ \A x \in store' \ store :
             x \in {<<c, "file">>, <<c, "thumbnail">>, <<c, "upload">>}
    BY <1>1, <1>4 DEF Kept
  <2>3. StepOf(c, "done", NoCall, r)
    BY <1>1, <1>2, <1>3, <1>4, <2>1, <2>2 DEF StepOf
  <2> QED
    BY <2>3, StepKeeps
<1>5. CASE FormUpload(c)
  <2>1. /\ projects' = projects
        /\ \/ store' = store \cup {<<c, "file">>, <<c, "thumbnail">>} /\ Goto(c, "insert")
           \/ \E objects \in SUBSET {<<c, "file">>, <<c, "thumbnail">>, <<c, "upload">>} :
                store' = store \cup objects /\ Return(c, "error")
    <3>1. PICK mime \in {"pdf", "exe"}, thumb \in {"png", "pdf"} :
            LET fileOk  == UploadAccepted("materials", mime, FALSE)
                thumbOk == UploadAccepted("gallery", thumb, FALSE)
            IN  /\ store' = store \cup (IF fileOk THEN {<<c, "file">>} ELSE {})
                                  \cup (IF fileOk /\ thumbOk THEN {<<c, "thumbnail">>} ELSE {})
                /\ IF fileOk /\ thumbOk THEN Goto(c, "insert") ELSE Return(c, "error")
      BY <1>5 DEF FormUpload
    <3> DEFINE fileOk == UploadAccepted("materials", mime, FALSE)
               thumbOk == UploadAccepted("gallery", thumb, FALSE)
    <3> HIDE DEF fileOk, thumbOk
    <3>2. /\ store' = store \cup (IF fileOk THEN {<<c, "file">>} ELSE {})
                            \cup (IF fileOk /\ thumbOk THEN {<<c, "thumbnail">>} ELSE {})
          /\ IF fileOk /\ thumbOk THEN Goto(c, "insert") ELSE Return(c, "error")
      BY <3>1 DEF fileOk, thumbOk
    <3>3. CASE fileOk /\ thumbOk
      BY <1>5, <3>2, <3>3 DEF FormUpload, rowVars
    <3>4. CASE fileOk /\ ~thumbOk
      <4>1. store' = store \cup {<<c, "file">>} /\ Return(c, "error")
        BY <3>2, <3>4
      <4> QED
        BY <1>5, <4>1 DEF FormUpload, rowVars
    <3>5. CASE ~fileOk
      <4>1. store' = store \cup {} /\ Return(c, "error")
        BY <3>2, <3>5
      <4> QED
        BY <1>5, <4>1 DEF FormUpload, rowVars
    <3> QED
      BY <3>3, <3>4, <3>5
  <2>2. CASE store' = store \cup {<<c, "file">>, <<c, "thumbnail">>} /\ Goto(c, "insert")
    <3>1. "insert" \in Pc /\ Allowed(c, "insert") /\ "insert" \notin AvatarPc
      BY <1>2 DEF Pc, Allowed, PublishPc, AvatarPc
    <3>2. Moved(c, "insert", call[c].old, "none")
      BY <1>2, <2>2, <3>1, GotoMoves
    <3>3. /\ \A x \in Kept : x \in Kept'
          /\ <<c, "file">> \in Kept'
          /\ \A x \in store' \ store : x \in {<<c, "file">>, <<c, "thumbnail">>}
      BY <1>1, <2>2 DEF Kept
    <3>4. StepOf(c, "insert", call[c].old, "none")
      BY <1>1, <1>2, <2>1, <3>1, <3>2, <3>3 DEF StepOf
    <3> QED
      BY <3>4, StepKeeps
  <2> QED
    BY <1>4, <2>1, <2>2
<1>6. CASE FormInsert(c)
  <2>1. /\ store' = store \cup {} /\ call[c].pc = "insert"
        /\ \/ projects' = projects \cup {c} /\ Return(c, "ok")
           \/ projects' = projects /\ Return(c, "error")
    BY <1>6 DEF FormInsert
  <2> QED
    BY <1>4, <2>1
<1>7. CASE AdminUpload(c)
  <2>1. /\ projects' = projects
        /\ \/ store' = store \cup {<<c, "upload">>} /\ Return(c, "ok")
           \/ store' = store \cup {} /\ Return(c, "error")
    BY <1>7 DEF AdminUpload, rowVars
  <2> QED
    BY <1>4, <2>1
<1> QED
  BY <1>5, <1>6, <1>7

\* An avatar upload stores its object, copies the URL it will replace and writes its
\* own; while it is between the delete and the UPDATE the link may be broken.
LEMMA AvatarKeeps ==
  ASSUME FilesInv, NEW c \in Call,
         AvatarUpload(c) \/ AvatarRead(c) \/ AvatarUpdate(c)
  PROVE  FilesInv'
<1>1. /\ call[c].pc \in {"idle", "read", "update"} /\ rowVars' = rowVars
      /\ removed' = removed /\ ackLost' = ackLost
  BY DEF AvatarUpload, AvatarRead, AvatarUpdate
<1>2. /\ CallsInv /\ c \in Avatar /\ c \notin Publisher /\ call[c].result = "none"
      /\ call \in [Call -> CallRecord]
      /\ c \in contents \/ c \in projects => c \in ackLost
      /\ call[c].pc \in AvatarPc => <<c, "avatar">> \in Kept
  BY <1>1, CallFacts
     DEF AvatarUpload, AvatarRead, AvatarUpdate, CallsInv, Allowed, AvatarPc, Publisher
<1>3. CASE AvatarUpload(c)
  <2>1. CASE store' = store \cup {<<c, "avatar">>} /\ Goto(c, "read")
    <3>1. "read" \in Pc /\ Allowed(c, "read")
      BY <1>2 DEF Pc, Allowed, PublishPc, AvatarPc
    <3>2. Moved(c, "read", call[c].old, "none")
      BY <1>2, <2>1, <3>1, GotoMoves
    <3>3. /\ \A x \in Kept : x \in Kept'
          /\ \A x \in store' \ store : x \in {<<c, "avatar">>}
          /\ <<c, "avatar">> \in Kept'
      BY <1>1, <2>1 DEF Kept
    <3>4. StepOf(c, "read", call[c].old, "none")
      BY <1>1, <1>2, <1>3, <3>1, <3>2, <3>3 DEF StepOf, rowVars, AvatarUpload
    <3> QED
      BY <3>4, StepKeeps
  <2>2. CASE store' = store /\ Return(c, "error")
    <3>1. Moved(c, "done", NoCall, "error") /\ "error" \in Result
      BY <1>2, <2>2, ReturnMoves DEF Result
    <3>2. avatarUrl' = avatarUrl /\ call[c].pc = "idle"
      BY <1>3 DEF AvatarUpload
    <3> QED
      BY <1>1, <1>2, <2>2, <3>1, <3>2, EndKeeps
  <2> QED
    BY <1>3, <2>1, <2>2 DEF AvatarUpload
<1>4. CASE AvatarRead(c)
  <2>1. /\ avatarUrl \in Ref /\ call[c].pc = "read"
        /\ store' = store /\ avatarUrl' = avatarUrl
        /\ call' = [call EXCEPT ![c].pc = "delete", ![c].old = avatarUrl]
    BY <1>4 DEF FilesInv, AvatarInv, AvatarRead
  <2>2. Moved(c, "delete", avatarUrl, "none")
    BY <1>2, <2>1 DEF CallRecord, Moved, Pc, AvatarPc
  <2>3. Allowed(c, "delete") /\ "delete" \in AvatarPc /\ "read" \in AvatarPc
    BY <1>2 DEF Allowed, PublishPc, AvatarPc
  <2> QED
    BY <1>1, <1>2, <2>1, <2>2, <2>3, QuietStepKeeps
<1>5. CASE AvatarUpdate(c)
  <2>1. /\ Moved(c, "done", NoCall, "ok")
        /\ avatarUrl' = c /\ store' = store /\ call[c].pc = "update"
    BY <1>2, <1>5, ReturnMoves DEF AvatarUpdate, Result
  <2>2. /\ Allowed(c, "done") /\ "done" \notin AvatarPc
        /\ <<c, "avatar">> \in Kept /\ Kept' = Kept
    BY <1>1, <1>2, <2>1 DEF Allowed, PublishPc, AvatarPc, Kept
  <2>3. StepOf(c, "done", NoCall, "ok")
    BY <1>1, <1>2, <2>1, <2>2 DEF StepOf, rowVars
  <2> QED
    BY <2>3, StepKeeps
<1> QED
  BY <1>3, <1>4, <1>5

\* The delete of the old avatar hits no object of an upload that is still running,
\* and marks the link as broken until the UPDATE.
LEMMA AvatarDeleteKeeps ==
  ASSUME FilesInv, NEW c \in Call, AvatarDeleteOld(c)
  PROVE  FilesInv'
<1>1. CallsInv /\ "update" \in Pc /\ call[c].pc = "delete"
  BY DEF FilesInv, AvatarDeleteOld, Pc, AvatarPc
<1>2. Moved(c, "update", call[c].old, call[c].result)
  BY <1>1, GotoMoves DEF AvatarDeleteOld
<1>3. /\ call \in [Call -> CallRecord] /\ call' \in [Call -> CallRecord]
      /\ call'[c].pc = "update" /\ call'[c].old = call[c].old
      /\ call'[c].result = call[c].result
      /\ \A d \in Call \ {c} : call'[d] = call[d]
  BY <1>1, <1>2 DEF Moved, CallsInv
<1>4. /\ store' = store \ {<<call[c].old, "avatar">>}
      /\ contents' = contents /\ projects' = projects /\ avatarUrl' = avatarUrl
      /\ removed' = removed /\ ackLost' = ackLost
  BY DEF AvatarDeleteOld, rowVars
<1>5. c \in Avatar
  BY <1>1 DEF CallsInv, Allowed, AvatarPc
<1>6. \A d \in Call : call'[d].pc = "done" <=> call[d].pc = "done"
  BY <1>1, <1>3
<1>7. CallsInv'
  <2>1. Allowed(c, "update")
    BY <1>5 DEF Allowed, PublishPc, AvatarPc
  <2> QED
    BY <1>1, <1>3, <2>1 DEF CallsInv, Allowed
<1>8. \A x \in Kept : x[2] = "file" => x \in Kept'
  BY <1>4 DEF Kept
<1>9. RowsInv'
  <2>1. ASSUME NEW d \in Call, <<d, "file">> \in Kept
        PROVE  <<d, "file">> \in Kept'
    BY <1>8, <2>1
  <2>2. \A d \in Call : call'[d].pc \in {"commit", "insert"} => <<d, "file">> \in Kept'
    BY <1>3, <2>1 DEF FilesInv, RowsInv
  <2> QED
    BY <1>4, <1>6, <2>1, <2>2 DEF FilesInv, RowsInv
<1>10. AvatarInv'
  <2>1. avatarUrl' # NoCall => call'[avatarUrl'].pc = "done"
    BY <1>4, <1>6 DEF FilesInv, AvatarInv, Ref
  <2>2. ASSUME NEW d \in Call, call'[d].old # NoCall
        PROVE  call'[call'[d].old].pc = "done"
    <3>1. call'[d].old = call[d].old /\ call[d].old \in Ref
      BY <1>3 DEF CallRecord
    <3> QED
      BY <1>6, <2>2, <3>1 DEF FilesInv, AvatarInv, Ref
  <2>3. ASSUME NEW d \in Call, call'[d].pc \in AvatarPc
        PROVE  <<d, "avatar">> \in Kept'
    <3>1. call[d].pc \in AvatarPc
      BY <1>1, <1>3, <2>3 DEF AvatarPc
    <3>2. d # NoCall /\ call[d].pc # "done"
      BY <3>1, PublicationAssumption DEF AvatarPc
    <3>3. d # call[c].old /\ <<d, "avatar">> \in Kept
      BY <3>1, <3>2 DEF FilesInv, AvatarInv
    <3> QED
      BY <1>4, <3>3 DEF Kept
  <2> QED
    BY <1>4, <2>1, <2>2, <2>3 DEF FilesInv, AvatarInv
<1>11. AvatarLinked'
  BY <1>3, <1>5 DEF AvatarLinked
<1>12. FailureInv'
  <2>1. \A d \in Publisher : call'[d].result = call[d].result
    BY <1>3 DEF Publisher
  <2> QED
    BY <1>4, <2>1 DEF FilesInv, FailureInv
<1> QED
  BY <1>7, <1>9, <1>10, <1>11, <1>12 DEF FilesInv

\* Rows may go, and objects whose removal is on record.
LEMMA RemovalKeeps ==
  ASSUME FilesInv, call' = call, avatarUrl' = avatarUrl, ackLost' = ackLost,
         \A x \in Kept : x \in Kept', \A x \in store' : x \in store,
         contents' \subseteq contents, projects' \subseteq projects
  PROVE  FilesInv'
<1>1. CallsInv'
  BY DEF FilesInv, CallsInv
<1>2. RowsInv'
  BY DEF FilesInv, RowsInv
<1>3. AvatarInv' /\ AvatarLinked'
  BY DEF FilesInv, AvatarInv, AvatarLinked
<1>4. FailureInv'
  BY DEF FilesInv, FailureInv
<1> QED
  BY <1>1, <1>2, <1>3, <1>4 DEF FilesInv

\* Every step preserves the invariant.
LEMMA FilesInvNext == FilesInv /\ [Next]_vars => FilesInv'
<1> SUFFICES ASSUME FilesInv, [Next]_vars
             PROVE  FilesInv'
  OBVIOUS
<1>1. ASSUME NEW c \in Call, CallStep(c)
      PROVE  FilesInv'
  BY <1>1, PublishStartKeeps, PublishUploadKeeps, CommitKeeps, CompensateKeeps, CutOffKeeps,
     FormKeeps, AvatarKeeps, AvatarDeleteKeeps DEF CallStep
<1>2. ASSUME NEW c \in Call, DeleteTopic(c) \/ DeleteContent(c) \/ DeleteProject(c)
      PROVE  FilesInv'
  <2>1. /\ call' = call /\ avatarUrl' = avatarUrl /\ ackLost' = ackLost
        /\ store' = store /\ removed' = removed
        /\ contents' \subseteq contents /\ projects' \subseteq projects
    BY <1>2 DEF DeleteTopic, DeleteContent, DeleteProject
  <2> QED
    BY <2>1, RemovalKeeps DEF Kept
<1>3. ASSUME NEW g \in Generation, CompleteGeneration(g)
      PROVE  FilesInv'
  BY <1>3, RemovalKeeps DEF CompleteGeneration, Kept, rowVars
<1>4. ASSUME NEW o \in store, DeleteUpload(o)
      PROVE  FilesInv'
  <2>1. /\ call' = call /\ avatarUrl' = avatarUrl /\ ackLost' = ackLost
        /\ store' = store \ {o} /\ removed' = removed \cup {o}
        /\ contents' = contents /\ projects' = projects
    BY <1>4 DEF DeleteUpload, rowVars
  <2> QED
    BY <2>1, RemovalKeeps DEF Kept
<1>5. CASE UNCHANGED vars
  BY <1>5, RemovalKeeps DEF vars, rowVars, Kept
<1> QED
  BY <1>1, <1>2, <1>3, <1>4, <1>5 DEF Next

--------------------------------------------------------------------------------
(* What a generation refers to.                                            *)

GenRecord == [status : {"publishing", "completed"}, lock : Ref, topic : Ref,
              content : Ref, project : Ref, file : Ref]

\* The file path is never forgotten, so it names the publication that the other
\* columns come from.
OneSource(x) == x.topic \in {NoCall, x.file} /\ x.content \in {NoCall, x.file}
                /\ x.project \in {NoCall, x.file}

RefersInv ==
  /\ gen \in [Generation -> GenRecord]
  /\ \A g \in Generation : OneSource(gen[g])

\* publish locks the row, replaces all its references at once, and unlocks it.
LEMMA RefersInvCall ==
  ASSUME RefersInv, NEW c \in Call, CallStep(c)
  PROVE  RefersInv'
<1> USE DEF OneSource
<1>1. gen \in [Generation -> GenRecord] /\ \A g \in Generation : OneSource(gen[g])
  BY DEF RefersInv
<1>2. CASE gen' = gen
  BY <1>1, <1>2 DEF RefersInv
<1>3. CASE LockGeneration(c) /\ gen' # gen
  <2>1. gen' = [gen EXCEPT ![call[c].gen].lock = c]
    BY <1>3 DEF LockGeneration
  <2>2. gen' \in [Generation -> GenRecord]
    <3> DEFINE k == call[c].gen
               x == [gen[k] EXCEPT !.lock = c]
    <3>1. k \in Generation => x \in GenRecord
      BY <1>1 DEF GenRecord, Ref
    <3>2. gen' = [gen EXCEPT ![k] = x]
      BY <2>1
    <3> HIDE DEF x, k
    <3> QED
      BY <1>1, <3>1, <3>2
  <2>3. \A g \in Generation : OneSource(gen'[g])
    BY <1>1, <2>1 DEF GenRecord
  <2> QED
    BY <2>2, <2>3 DEF RefersInv
<1>4. CASE Publish(c, call[c].gen)
  <2> DEFINE k == call[c].gen
             x == [gen[k] EXCEPT !.topic = c, !.content = c, !.project = c,
                                 !.file = c, !.lock = NoCall]
  <2>1. gen' = [gen EXCEPT ![k] = x]
    BY <1>4 DEF Publish
  <2>2. ASSUME k \in Generation
        PROVE  x \in GenRecord /\ OneSource(x)
    <3>1. gen[k] \in GenRecord
      BY <1>1, <2>2
    <3> DEFINE y == [gen[k] EXCEPT !.topic = c, !.content = c, !.project = c]
    <3>2. y \in GenRecord /\ y.topic = c /\ y.content = c /\ y.project = c
      BY <3>1 DEF GenRecord, Ref
    <3>3. x = [y EXCEPT !.file = c, !.lock = NoCall]
      OBVIOUS
    <3> HIDE DEF x, y
    <3> QED
      BY <3>2, <3>3 DEF GenRecord, Ref
  <2> HIDE DEF k, x, OneSource
  <2> QED
    BY <1>1, <2>1, <2>2 DEF RefersInv
<1>5. CASE Unlock(c)
  <2>1. ASSUME NEW g \in Generation
        PROVE  gen'[g] \in GenRecord /\ OneSource(gen'[g])
    <3>1. gen'[g] \in {gen[g], [gen[g] EXCEPT !.lock = NoCall]}
      BY <1>5 DEF Unlock
    <3> QED
      BY <1>1, <3>1 DEF GenRecord, Ref
  <2>2. gen' = [g \in Generation |-> gen'[g]]
    BY <1>5 DEF Unlock
  <2> QED
    BY <2>1, <2>2 DEF RefersInv
<1> QED
  BY <1>2, <1>3, <1>4, <1>5
     DEF CallStep, StartPublish, LockGeneration, DownloadArtifact, ResolveThumbnail,
         UploadArtifact, CommitPublication, CommitAnswerLost, StepFails,
         CompensateUploadedFiles, CutOff, FormUpload, FormInsert, AdminUpload, AvatarUpload,
         AvatarRead, AvatarDeleteOld, AvatarUpdate

\* Deleting a row sets the columns that refer to it to NULL.
LEMMA RefersInvDelete ==
  ASSUME RefersInv, NEW c \in Call, DeleteTopic(c) \/ DeleteContent(c) \/ DeleteProject(c)
  PROVE  RefersInv'
<1>1. gen \in [Generation -> GenRecord] /\ \A g \in Generation : OneSource(gen[g])
  BY DEF RefersInv
<1>2. CASE DeleteTopic(c)
  <2>1. ASSUME NEW g \in Generation
        PROVE  gen'[g] \in GenRecord /\ OneSource(gen'[g])
    <3> DEFINE t == IF gen[g].topic = c THEN NoCall ELSE gen[g].topic
               n == IF gen[g].content = c THEN NoCall ELSE gen[g].content
    <3>1. gen'[g] = [gen[g] EXCEPT !.topic = t, !.content = n]
      BY <1>1, <1>2 DEF DeleteTopic, GenRecord
    <3>2. /\ t \in {NoCall, gen[g].file} /\ t \in Ref
          /\ n \in {NoCall, gen[g].file} /\ n \in Ref
      BY <1>1 DEF GenRecord, Ref, OneSource
    <3> HIDE DEF t, n
    <3>3. gen'[g] \in GenRecord
      BY <1>1, <3>1, <3>2 DEF GenRecord
    <3>4. /\ gen'[g].topic = t /\ gen'[g].content = n
          /\ gen'[g].project = gen[g].project /\ gen'[g].file = gen[g].file
      BY <1>1, <3>1 DEF GenRecord
    <3> QED
      BY <1>1, <3>2, <3>3, <3>4 DEF OneSource
  <2>2. gen' = [g \in Generation |-> gen'[g]]
    BY <1>2 DEF DeleteTopic
  <2> QED
    BY <2>1, <2>2 DEF RefersInv
<1>3. ASSUME NEW column \in {"content", "project"}, Forget(column, c)
      PROVE  RefersInv'
  <2>1. ASSUME NEW g \in Generation
        PROVE  gen'[g] \in GenRecord /\ OneSource(gen'[g])
    <3>1. gen'[g] \in {gen[g], [gen[g] EXCEPT ![column] = NoCall]}
      BY <1>3 DEF Forget
    <3>2. CASE gen'[g] = [gen[g] EXCEPT !.content = NoCall]
      BY <1>1, <3>2 DEF GenRecord, Ref, OneSource
    <3>3. CASE gen'[g] = [gen[g] EXCEPT !.project = NoCall]
      BY <1>1, <3>3 DEF GenRecord, Ref, OneSource
    <3> QED
      BY <1>1, <1>3, <3>1, <3>2, <3>3
  <2>2. gen' = [g \in Generation |-> gen'[g]]
    BY <1>3 DEF Forget
  <2> QED
    BY <2>1, <2>2 DEF RefersInv
<1> QED
  BY <1>2, <1>3 DEF DeleteContent, DeleteProject

\* Every step preserves it.
LEMMA RefersInvNext == RefersInv /\ [Next]_vars => RefersInv'
<1> SUFFICES ASSUME RefersInv, [Next]_vars
             PROVE  RefersInv'
  OBVIOUS
<1>1. ASSUME NEW g \in Generation, CompleteGeneration(g)
      PROVE  RefersInv'
  <2>1. gen' = [gen EXCEPT ![g].status = "completed"]
    BY <1>1 DEF CompleteGeneration
  <2>2. gen' \in [Generation -> GenRecord]
    BY <2>1 DEF RefersInv, GenRecord
  <2>3. \A h \in Generation : OneSource(gen'[h])
    BY <2>1 DEF RefersInv, GenRecord, OneSource
  <2> QED
    BY <2>2, <2>3 DEF RefersInv
<1>2. CASE gen' = gen
  BY <1>2 DEF RefersInv
<1> QED
  BY <1>1, <1>2, RefersInvCall, RefersInvDelete DEF Next, DeleteUpload, vars

--------------------------------------------------------------------------------
\* The files of contents, projects and avatars are in the store, whatever steps fail,
\* are cut off or interleave: only an admin's delete by path, a compensation for a
\* commit whose answer was lost, and an avatar upload between its delete and its
\* UPDATE break a link.
THEOREM LinksHold == Spec => []RowsHaveTheirFiles
BY FilesInvInit, FilesInvNext, FilesInvImplies, PTL DEF Spec

\* A publish that reported an error and could delete left its thumbnail only.
THEOREM FailuresCleanUp == Spec => []FailureLeavesOnlyTheThumbnail
BY FilesInvInit, FilesInvNext, FilesInvImplies, PTL DEF Spec

\* However many workers publish a generation, and whatever an admin deletes, topic,
\* content, project and file path of a generation never come from two publications.
THEOREM OnePublication == Spec => []RefersToOnePublication
<1>1. Init => RefersInv
  BY DEF Init, RefersInv, GenRecord, Ref, OneSource
<1>2. RefersInv => RefersToOnePublication
  <2> SUFFICES ASSUME RefersInv, NEW g \in Generation
               PROVE  Cardinality({gen[g].topic, gen[g].content, gen[g].project,
                                   gen[g].file} \ {NoCall}) <= 1
    BY DEF RefersToOnePublication
  <2> DEFINE S == {gen[g].topic, gen[g].content, gen[g].project, gen[g].file} \ {NoCall}
  <2>1. S = {} \/ S = {gen[g].file}
    BY DEF RefersInv, OneSource
  <2> HIDE DEF S
  <2>2. Cardinality(S) \in {0, 1}
    BY <2>1, FS_EmptySet, FS_Singleton
  <2> QED
    BY <2>2 DEF S
<1> QED
  BY <1>1, <1>2, RefersInvNext, PTL DEF Spec
================================================================================
