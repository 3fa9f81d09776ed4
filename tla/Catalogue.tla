------------------------------- MODULE Catalogue -------------------------------
(***************************************************************************)
(* The catalogue behind the home page and its administration: topics and   *)
(* their contents, recommended projects, homepage sections and system      *)
(* settings (src/api/rest/admin, src/db/repositories), with the activity   *)
(* log every admin handler writes after its change.                        *)
(*                                                                         *)
(* A statement outside a transaction is one step.  It waits for a row that *)
(* an open transaction has locked.  reorder and the bulk updates are       *)
(* transactions of several statements; PostgreSQL (READ COMMITTED) breaks  *)
(* a circle of waiting transactions by aborting one.                       *)
(***************************************************************************)
EXTENDS Integers, FiniteSets, Sequences, SequencesExt, Relation

CONSTANTS
  Topic, Content, Project, Section, Setting,   \* ids of rows
  Admin,          \* admin requests; each is made once
  NoOne,          \* NULL
  SubjectOf,      \* the subject of each sub-subject
  Normalized,     \* topics with an owner and ownership_status 'normalized'
  SettingType,    \* the type column of each setting
  RawOf,          \* the value each request sends for settings, trimmed, lower case
  StartOrder      \* order of the topics and contents of an imported table

Ordered == Topic \cup Content
Rows == Ordered \cup Project \cup Section \cup Setting

ASSUME CatalogueAssumption ==
  /\ NoOne \notin Admin \cup Rows \cup DOMAIN SubjectOf \cup {"true", "false"}
  /\ Normalized \subseteq Topic
  /\ SettingType \in [Setting -> {"boolean", "text"}]
  /\ DOMAIN StartOrder \subseteq Ordered
  /\ \A r \in DOMAIN StartOrder : StartOrder[r] \in Nat
  /\ \A T \in {Topic, Content} : \A r, s \in T \cap DOMAIN StartOrder :
       StartOrder[r] = StartOrder[s] => r = s
  /\ Content \cap DOMAIN StartOrder # {} => Topic \cap DOMAIN StartOrder # {}
  /\ IsFiniteSet(Rows)
  /\ LET table == <<Topic, Content, Project, Section, Setting>>
     IN  \A i, j \in 1..5 : i # j => table[i] \cap table[j] = {}

VARIABLES
  row,       \* committed rows
  lock,      \* the transaction that holds each row
  req,       \* where each request stands
  activity   \* activity_logs: the requests that were recorded, oldest first

catalogueVars == <<row, lock, req, activity>>

--------------------------------------------------------------------------------
(* Pagination and the public listings.                                     *)

DefaultPerPage == 15
MaxPerPage == 50

ClampPerPage(n) == IF n < 1 THEN 1 ELSE IF n > MaxPerPage THEN MaxPerPage ELSE n

ParsePage(page, perPage) ==
  [page |-> IF page < 1 THEN 1 ELSE page, perPage |-> ClampPerPage(perPage)]

\* Mutant: pages counted from 0.
MutantOffset(q) == q.page * q.perPage

Offset(q) == (q.page - 1) * q.perPage

LastPage(perPage, total) == IF total = 0 THEN 1 ELSE (total + perPage - 1) \div perPage

\* LIMIT/OFFSET of a set under a total order `before`: the rows whose number of
\* predecessors falls into the page.
Slice(S, before(_, _), q) ==
  {r \in S : LET n == Cardinality({x \in S : before(x, r)})
             IN  Offset(q) <= n /\ n < Offset(q) + q.perPage}

\* ORDER BY "order" ASC, created_at DESC.
Listed(r, s) ==
  \/ row[r].order < row[s].order
  \/ row[r].order = row[s].order /\ row[r].created > row[s].created

\* Filters that a client does not send do not filter: is_published among them.
FindTopics(published, sub, q) ==
  LET S == {t \in Topic : /\ row[t].live /\ (published => row[t].flag)
                          /\ sub # NoOne => row[t].sub = sub}
  IN  [items |-> Slice(S, Listed, q), total |-> Cardinality(S)]

FindContents(topic, q) ==
  LET S == {c \in Content : row[c].live /\ (topic # NoOne => row[c].group = topic)}
  IN  [items |-> Slice(S, Listed, q), total |-> Cardinality(S)]

\* GET /gallery: contents with a file, newest first.
Newer(r, s) == row[r].created > row[s].created

FindGallery(q) ==
  LET S == {c \in Content : row[c].live /\ row[c].file}
  IN  [items |-> Slice(S, Newer, q), total |-> Cardinality(S)]

\* The activity log, newest first, of one actor or of all.
FindActivity(actor, q) ==
  LET S == {i \in DOMAIN activity : actor # NoOne => activity[i] = actor}
      Later(i, j) == i > j
  IN  [items |-> Slice(S, Later, q), total |-> Cardinality(S)]

\* recommended_projects at a moment, and enabled homepage sections.
FindVisibleAt(now) ==
  {p \in Project : /\ row[p].live /\ row[p].flag
                   /\ row[p].starts = NoOne \/ row[p].starts <= now
                   /\ row[p].ends = NoOne \/ row[p].ends >= now}

FindEnabledOrdered == {s \in Section : row[s].flag}

--------------------------------------------------------------------------------
(* What a client sees of a topic or a content.                             *)

\* ORDER BY: the rows of a set by their number of predecessors under a total order.
InOrder(S, before(_, _)) ==
  [i \in 1..Cardinality(S) |->
     CHOOSE r \in S : Cardinality({x \in S : before(x, r)}) = i - 1]

\* The contents of a topic by "order" and then, unlike the listings, oldest first.
Shown(c, d) ==
  \/ row[c].order < row[d].order
  \/ row[c].order = row[d].order /\ row[c].created < row[d].created

LoadContentsForTopics(t) ==
  InOrder({c \in Content : row[c].live /\ row[c].group = t}, Shown)

LoadContentsCounts(t) == Cardinality({c \in Content : row[c].live /\ row[c].group = t})

\* The sub-subjects of a page of topics, and then the subjects of those.
LoadSubSubjects(page) == {row[t].sub : t \in page} \ {NoOne}

LoadSubjects(subs) == {SubjectOf[s] : s \in subs}

Taxonomy(sub, subs, subjects) ==
  IF sub \notin subs THEN NoOne
  ELSE <<sub, IF SubjectOf[sub] \in subjects THEN SubjectOf[sub] ELSE NoOne>>

BuildPersonalization(t) ==
  [eligible |-> row[t].sub # NoOne /\ t \in Normalized,
   excluded |-> IF row[t].sub = NoOne THEN "missing_sub_subject"
                ELSE IF t \notin Normalized THEN "unresolved_ownership" ELSE "none"]

BuildTopicResourceWithCount(t, subs, subjects) ==
  [topic |-> t, taxonomy |-> Taxonomy(row[t].sub, subs, subjects),
   personalization |-> BuildPersonalization(t), contents_count |-> LoadContentsCounts(t)]

BuildTopicResourceWithContents(t, subs, subjects) ==
  [topic |-> t, taxonomy |-> Taxonomy(row[t].sub, subs, subjects),
   personalization |-> BuildPersonalization(t), contents |-> LoadContentsForTopics(t)]

\* GET /topics, with the contents of each topic or with their number.
TopicIndex(published, sub, withContents, q) ==
  LET page     == FindTopics(published, sub, q).items
      subs     == LoadSubSubjects(page)
      subjects == LoadSubjects(subs)
  IN  {IF withContents THEN BuildTopicResourceWithContents(t, subs, subjects)
       ELSE BuildTopicResourceWithCount(t, subs, subjects) : t \in page}

\* The topic with its contents, published or not.
FindTopicById(t) == [topic |-> t, contents |-> LoadContentsForTopics(t)]

LoadSingleSubject(sub) == IF sub = NoOne THEN NoOne ELSE <<sub, SubjectOf[sub]>>

BuildTopicResourceFromTwc(twc) ==
  [topic |-> twc.topic, taxonomy |-> LoadSingleSubject(row[twc.topic].sub),
   personalization |-> BuildPersonalization(twc.topic), contents |-> twc.contents]

\* GET /topics/{id}.
ShowTopic(t) == BuildTopicResourceFromTwc(FindTopicById(t))

\* The topics of a page of contents.
LoadTopics(page) == {row[c].group : c \in page} \cap {t \in Topic : row[t].live}

BuildContentResource(c, topics) ==
  [content |-> c, topic |-> IF row[c].group \in topics THEN row[c].group ELSE NoOne]

\* GET /contents.
ContentIndex(topic, q) ==
  LET page == FindContents(topic, q).items
  IN  {BuildContentResource(c, LoadTopics(page)) : c \in page}

\* GET /contents/{id}: nothing when the topic is not found.
FindContentById(c) ==
  IF row[c].live /\ row[row[c].group].live THEN [content |-> c, topic |-> row[c].group]
  ELSE NoOne

\* The gallery joins the topic of each of its items.
GalleryIndex(q) ==
  LET page == FindGallery(q).items
  IN  {BuildContentResource(c, LoadTopics(page)) : c \in page}

--------------------------------------------------------------------------------
(* Settings are text; a boolean is stored in one spelling and shown as one. *)

Truthy == {"true", "1", "yes", "on"}

CoerceSettingValue(value, type) ==
  IF type = "boolean" THEN IF value \in Truthy THEN "true" ELSE "false" ELSE value

ParseBoolSetting(value, type) ==
  IF type # "boolean" \/ value = NoOne THEN NoOne ELSE value \in Truthy

\* GET /admin/settings.
SettingResource(k) ==
  IF SettingType[k] = "boolean" THEN ParseBoolSetting(row[k].text, "boolean") ELSE row[k].text

--------------------------------------------------------------------------------
Blank == [live |-> FALSE, group |-> NoOne, order |-> 0, flag |-> TRUE, file |-> FALSE,
          sub |-> NoOne, val |-> NoOne, text |-> NoOne, starts |-> NoOne, ends |-> NoOne, created |-> 0]

Idle == [pc |-> "idle", id |-> NoOne, seen |-> Blank, todo |-> <<>>, cand |-> {},
         dir |-> "up", kind |-> "other", changed |-> FALSE, result |-> "none"]

\* The topic of the imported contents.
ImportedTopic == CHOOSE t \in Topic \cap DOMAIN StartOrder : TRUE

CatalogueInit ==
  /\ row = [r \in Rows |->
       IF r \in Ordered /\ r \notin DOMAIN StartOrder THEN Blank
       ELSE [Blank EXCEPT !.live = TRUE,
                          !.order = IF r \in Ordered THEN StartOrder[r] ELSE 0,
                          !.group = IF r \in Content THEN ImportedTopic ELSE NoOne,
                          !.file = r \in Content,
                          !.created = IF r \in Ordered THEN 1 + StartOrder[r] ELSE 1]]
  /\ lock = [r \in Rows |-> NoOne]
  /\ req = [a \in Admin |-> Idle]
  /\ activity = <<>>

Free(r, a) == lock[r] \in {NoOne, a}

Release(a) == lock' = [r \in Rows |-> IF lock[r] = a THEN NoOne ELSE lock[r]]

Answer(a, result) ==
  req' = [req EXCEPT ![a] = [Idle EXCEPT !.pc = "done", !.kind = req[a].kind,
                                         !.changed = req[a].changed, !.result = result]]

\* The change is committed; the handler goes on to pc.
Changed(a, kind, pc) ==
  req' = [req EXCEPT ![a] = [Idle EXCEPT !.pc = pc, !.kind = kind, !.changed = TRUE]]

--------------------------------------------------------------------------------
(* update: SELECT, then UPDATE of every column from what was read.         *)

ReadForUpdate(a) ==
  /\ req[a].pc = "idle"
  /\ \E id \in Ordered \cup Project :
       IF row[id].live
       THEN req' = [req EXCEPT ![a].pc = "update", ![a].id = id, ![a].seen = row[id]]
       ELSE Answer(a, "404")
  /\ UNCHANGED <<row, lock, activity>>

\* The row has gone since: fetch_one fails (topics, contents: 500), or the
\* project handler finds nothing (404).
UpdateGone(a) ==
  /\ req[a].pc = "update" /\ ~row[req[a].id].live
  /\ Answer(a, IF req[a].id \in Project THEN "404" ELSE "500")
  /\ UNCHANGED <<row, lock, activity>>

CanWrite(a, S) ==
  /\ req[a].pc = "update" /\ req[a].id \in S
  /\ row[req[a].id].live /\ Free(req[a].id, a)

\* sub_subject_id: given (also as NULL), or as it was read.
UpdateTopic(a) ==
  /\ CanWrite(a, Topic)
  /\ \E sub \in DOMAIN SubjectOf \cup {NoOne, req[a].seen.sub} :
       row' = [row EXCEPT ![req[a].id].sub = sub, ![req[a].id].val = a]
  /\ Changed(a, "other", "log")
  /\ UNCHANGED <<lock, activity>>

\* Mutant: no foreign key from contents to topics.
MutantTopicExists(t) == TRUE

\* contents.topic_id REFERENCES topics ON DELETE CASCADE.
TopicExists(t) == row[t].live

UpdateContent(a) ==
  /\ CanWrite(a, Content)
  /\ \E given \in Topic \cup {NoOne} :
       LET t == IF given = NoOne THEN req[a].seen.group ELSE given
       IN  IF TopicExists(t)
           THEN /\ row' = [row EXCEPT ![req[a].id].group = t, ![req[a].id].val = a]
                /\ Changed(a, "other", "log")
           ELSE Answer(a, "500") /\ UNCHANGED row
  /\ UNCHANGED <<lock, activity>>

\* parse_dt: a date that is not sent (NoOne) is replaced by the starts_at that
\* was read, for ends_at too; an empty one (0) leaves the column as it is.
ParseDt(sent, seen) == IF sent = NoOne THEN seen.starts ELSE IF sent = 0 THEN NoOne ELSE sent

\* Only the columns that have a value are written; is_active comes from the read.
UpdateProject(a) ==
  LET p == req[a].id IN
  /\ CanWrite(a, Project)
  /\ \E startsAt, endsAt \in {NoOne, 0, 1} :
       LET starts == ParseDt(startsAt, req[a].seen)
           ends   == ParseDt(endsAt, req[a].seen)
       IN  row' = [row EXCEPT ![p].val = a, ![p].flag = req[a].seen.flag,
                              ![p].starts = IF starts = NoOne THEN @ ELSE starts,
                              ![p].ends = IF ends = NoOne THEN @ ELSE ends]
  /\ Changed(a, "other", "log")
  /\ UNCHANGED <<lock, activity>>

--------------------------------------------------------------------------------
(* Single statements.                                                      *)

NextStamp == 1 + Max({row[r].created : r \in Content})

\* The id is new; the content comes last in created_at and first in "order".
CreateContent(a) ==
  /\ req[a].pc = "idle"
  /\ \E c \in {x \in Content : row[x].created = 0}, t \in Topic, file, valid \in BOOLEAN :
       \/ ~valid /\ Answer(a, "422") /\ UNCHANGED row      \* unknown content type
       \/ valid /\ ~TopicExists(t) /\ Answer(a, "500") /\ UNCHANGED row
       \/ /\ valid /\ TopicExists(t)
          /\ row' = [row EXCEPT ![c] = [Blank EXCEPT !.live = TRUE, !.group = t, !.val = a,
                                           !.file = file, !.created = NextStamp]]
          /\ Changed(a, "other", "log")
  /\ UNCHANGED <<lock, activity>>

\* Contents go with their topic.
Cascade(id) == {id} \cup {c \in Content : row[c].live /\ row[c].group = id}

Delete(a, id) ==
  IF row[id].live
  THEN /\ row' = [r \in Rows |-> IF r \in Cascade(id) THEN [row[r] EXCEPT !.live = FALSE]
                                 ELSE row[r]]
       /\ Changed(a, "other", "log")
  ELSE Answer(a, "404") /\ UNCHANGED row

DeleteTopic(a) ==
  /\ req[a].pc = "idle"
  /\ \E id \in Topic : (\A r \in Cascade(id) : Free(r, a)) /\ Delete(a, id)
  /\ UNCHANGED <<lock, activity>>

DeleteContent(a) ==
  /\ req[a].pc = "idle"
  /\ \E id \in Content : Free(id, a) /\ Delete(a, id)
  /\ UNCHANGED <<lock, activity>>

\* The project handler looks the row up first, for the title it logs.
FindProjectToDelete(a) ==
  /\ req[a].pc = "idle"
  /\ \E p \in Project :
       IF row[p].live THEN req' = [req EXCEPT ![a].pc = "delete", ![a].id = p]
       ELSE Answer(a, "404")
  /\ UNCHANGED <<row, lock, activity>>

DeleteProject(a) ==
  /\ req[a].pc = "delete"
  /\ Delete(a, req[a].id)
  /\ UNCHANGED <<lock, activity>>

SetPublish(a, id, flag) ==
  /\ Free(id, a)
  /\ IF row[id].live
     THEN row' = [row EXCEPT ![id].flag = flag] /\ Changed(a, "other", "log")
     ELSE Answer(a, "404") /\ UNCHANGED row
  /\ UNCHANGED <<lock, activity>>

PublishTopic(a) ==
  /\ req[a].pc = "idle"
  /\ \E id \in Topic, flag \in BOOLEAN : SetPublish(a, id, flag)

PublishContent(a) ==
  /\ req[a].pc = "idle"
  /\ \E id \in Content, flag \in BOOLEAN : SetPublish(a, id, flag)

ShowNow(a) ==
  /\ req[a].pc = "idle"
  /\ \E p \in Project :
       IF row[p].live
       THEN /\ row' = [row EXCEPT ![p].flag = TRUE, ![p].starts = NoOne]
            /\ Changed(a, "other", "log")
       ELSE Answer(a, "404") /\ UNCHANGED row
  /\ UNCHANGED <<lock, activity>>

\* Mutant: the answer is given before the activity is recorded.
MutantReloadToggled(a) ==
  /\ req[a].pc = "reload"
  /\ IF row[req[a].id].live THEN Answer(a, "ok") ELSE Answer(a, "404")
  /\ UNCHANGED <<row, lock, activity>>

\* The handler reads the project again before it logs: when the project is gone
\* by then, the answer is 404 although the flag was changed.
ToggleActive(a) ==
  /\ req[a].pc = "idle"
  /\ \E p \in Project :
       IF row[p].live
       THEN /\ row' = [row EXCEPT ![p].flag = ~@]
            /\ req' = [req EXCEPT ![a].pc = "reload", ![a].id = p, ![a].kind = "toggle",
                                  ![a].changed = TRUE]
       ELSE Answer(a, "404") /\ UNCHANGED row
  /\ UNCHANGED <<lock, activity>>

ReloadToggled(a) ==
  /\ req[a].pc = "reload"
  /\ IF row[req[a].id].live THEN req' = [req EXCEPT ![a].pc = "log"] ELSE Answer(a, "404")
  /\ UNCHANGED <<row, lock, activity>>

--------------------------------------------------------------------------------
(* reorder: a transaction.  Lock the row, find and lock the neighbour, swap. *)

Siblings(id) ==
  IF id \in Topic THEN Topic ELSE {c \in Content : row[c].group = row[id].group}

\* The neighbour is nearest in the direction and strictly beyond: rows that share
\* an order never change places.
Beyond(dir, order, than) == IF dir = "up" THEN order < than ELSE order > than

Nearest(cand, dir) == {p \in cand : \A q \in cand : ~Beyond(dir, p[2], q[2])}

AtTheEdge(a) == Release(a) /\ Answer(a, "422")

\* Mutant: SELECT without FOR UPDATE.
MutantLockMoved(a, id, dir) ==
  /\ row[id].live
  /\ req' = [req EXCEPT ![a].pc = "neighbour", ![a].id = id, ![a].dir = dir,
                        ![a].seen = row[id]]
  /\ UNCHANGED lock

LockMoved(a, id, dir) ==
  /\ Free(id, a)
  /\ IF row[id].live
     THEN /\ lock' = [lock EXCEPT ![id] = a]
          /\ req' = [req EXCEPT ![a].pc = "neighbour", ![a].id = id, ![a].dir = dir,
                                ![a].seen = row[id]]
     ELSE Answer(a, "422") /\ UNCHANGED lock

\* Any other direction is refused.
ReorderTopic(a) ==
  /\ req[a].pc = "idle"
  /\ \/ Answer(a, "422") /\ UNCHANGED lock
     \/ \E id \in Topic, dir \in {"up", "down"} : LockMoved(a, id, dir)
  /\ UNCHANGED <<row, activity>>

ReorderContent(a) ==
  /\ req[a].pc = "idle"
  /\ \E id \in Content, dir \in {"up", "down"} : LockMoved(a, id, dir)
  /\ UNCHANGED <<row, activity>>

FindNeighbour(a) ==
  LET id   == req[a].id
      cand == {<<n, row[n].order>> :
                n \in {n \in Siblings(id) \ {id} :
                         row[n].live /\ Beyond(req[a].dir, row[n].order, req[a].seen.order)}}
  IN  /\ req[a].pc = "neighbour"
      /\ IF cand = {} THEN AtTheEdge(a)
         ELSE req' = [req EXCEPT ![a].pc = "await", ![a].cand = cand] /\ UNCHANGED lock
      /\ UNCHANGED <<row, activity>>

\* FOR UPDATE waits for the neighbour's row and then looks at its new version:
\* when it no longer qualifies, the next row of the snapshot is tried.
LockNeighbour(a) ==
  /\ req[a].pc = "await"
  /\ \E p \in Nearest(req[a].cand, req[a].dir) :
       LET n == p[1] IN
       /\ Free(n, a)
       /\ IF /\ row[n].live /\ row[n].group = req[a].seen.group
             /\ Beyond(req[a].dir, row[n].order, req[a].seen.order)
          THEN /\ lock' = [lock EXCEPT ![n] = a]
               /\ req' = [req EXCEPT ![a].pc = "swap", ![a].cand = {p}]
          ELSE IF req[a].cand = {p} THEN AtTheEdge(a)
          ELSE req' = [req EXCEPT ![a].cand = @ \ {p}] /\ UNCHANGED lock
  /\ UNCHANGED <<row, activity>>

Swap(a) ==
  /\ req[a].pc = "swap"
  /\ LET n == (CHOOSE p \in req[a].cand : TRUE)[1]
     IN  row' = [row EXCEPT ![req[a].id].order = row[n].order, ![n].order = req[a].seen.order]
  /\ Release(a)
  /\ Changed(a, "other", "log")
  /\ UNCHANGED activity

--------------------------------------------------------------------------------
(* The bulk updates of homepage_sections and system_settings: one          *)
(* transaction, one UPDATE per row, in the order of the request (sections) *)
(* or of a HashMap (settings).                                             *)

BulkSections(a) ==
  /\ req[a].pc = "idle"
  /\ \/ Answer(a, "422")                 \* empty, or a negative position
     \/ Answer(a, "404")                 \* sections none of which exists
     \/ \E order \in SetToSeqs(Section) :
          req' = [req EXCEPT ![a].pc = "bulk", ![a].todo = order, ![a].kind = "sections"]
  /\ UNCHANGED <<row, lock, activity>>

\* One value for every setting of the request stands for them all.
BulkSettings(a) ==
  /\ req[a].pc = "idle"
  /\ \E order \in SetToSeqs(Setting) :
       req' = [req EXCEPT ![a].pc = "bulk", ![a].todo = order, ![a].kind = "settings"]
  /\ UNCHANGED <<row, lock, activity>>

\* Mutant: every UPDATE commits by itself.
MutantBulkUpdateRow(a) ==
  /\ req[a].pc = "bulk" /\ req[a].todo # <<>>
  /\ Free(Head(req[a].todo), a)
  /\ row' = [row EXCEPT ![Head(req[a].todo)].val = a]
  /\ req' = [req EXCEPT ![a].todo = Tail(@)]
  /\ UNCHANGED <<lock, activity>>

BulkUpdateRow(a) ==
  /\ req[a].pc = "bulk" /\ req[a].todo # <<>>
  /\ Free(Head(req[a].todo), a)
  /\ lock' = [lock EXCEPT ![Head(req[a].todo)] = a]
  /\ req' = [req EXCEPT ![a].todo = Tail(@)]
  /\ UNCHANGED <<row, activity>>

BulkCommit(a) ==
  /\ req[a].pc = "bulk" /\ req[a].todo = <<>>
  /\ row' = [r \in Rows |->
               IF lock[r] # a THEN row[r]
               ELSE [row[r] EXCEPT !.val = a,
                       !.text = IF r \in Setting
                                THEN CoerceSettingValue(RawOf[a], SettingType[r]) ELSE row[r].text]]
  /\ Release(a)
  /\ Changed(a, req[a].kind, "log")
  /\ UNCHANGED activity

--------------------------------------------------------------------------------
\* Whom a transaction waits for.
Awaited(a) ==
  CASE req[a].pc = "await" -> {p[1] : p \in Nearest(req[a].cand, req[a].dir)}
    [] req[a].pc = "bulk"  -> IF req[a].todo = <<>> THEN {} ELSE {Head(req[a].todo)}
    [] OTHER               -> {}

WaitsFor == [p \in Admin \X Admin |-> p[1] # p[2] /\ \E r \in Awaited(p[1]) : lock[r] = p[2]]

DeadlockAbort(a) ==
  /\ TransitiveClosure(WaitsFor, Admin)[<<a, a>>]
  /\ Release(a)
  /\ Answer(a, "500")
  /\ UNCHANGED <<row, activity>>

\* record_activity, the last step of every handler; the settings handler reads
\* all settings again after it.
RecordActivity(a) ==
  /\ req[a].pc = "log"
  /\ \/ activity' = Append(activity, a) /\ Answer(a, "ok")
     \/ activity' = Append(activity, a) /\ req[a].kind = "settings" /\ Answer(a, "500")
     \/ activity' = activity /\ Answer(a, "500")
  /\ UNCHANGED <<row, lock>>

\* The process stops; open transactions are rolled back.
CutOff(a) ==
  /\ req[a].pc \notin {"idle", "done"}
  /\ Release(a)
  /\ Answer(a, "cut off")
  /\ UNCHANGED <<row, activity>>

AdminStep(a) ==
  \/ ReadForUpdate(a) \/ UpdateGone(a) \/ UpdateTopic(a) \/ UpdateContent(a) \/ UpdateProject(a)
  \/ CreateContent(a) \/ DeleteTopic(a) \/ DeleteContent(a)
  \/ FindProjectToDelete(a) \/ DeleteProject(a)
  \/ PublishTopic(a) \/ PublishContent(a) \/ ShowNow(a) \/ ToggleActive(a) \/ ReloadToggled(a)
  \/ ReorderTopic(a) \/ ReorderContent(a) \/ FindNeighbour(a) \/ LockNeighbour(a) \/ Swap(a)
  \/ BulkSections(a) \/ BulkSettings(a) \/ BulkUpdateRow(a) \/ BulkCommit(a)
  \/ DeadlockAbort(a) \/ RecordActivity(a) \/ CutOff(a)

CatalogueNext == \E a \in Admin : AdminStep(a)

CatalogueSpec == CatalogueInit /\ [][CatalogueNext]_catalogueVars

--------------------------------------------------------------------------------
(* Properties.                                                             *)

Count(S, n) == Cardinality({r \in S : row[r].live /\ row[r].order = n})

\* Moving rows up and down only permutes order values: whatever reorders, deletes
\* and updates interleave, no value in use is lost or doubled, because reorder
\* holds both rows from its reads to its commit.
ReorderPermutes ==
  [][ (\A r \in Ordered : row'[r].live = row[r].live)
        => \A T \in {Topic, Content}, n \in 0..Cardinality(Ordered) :
             Count(T, n)' = Count(T, n) ]_catalogueVars

\* A bulk update is all or nothing for every reader: the sections (and the
\* settings) always hold the values of one request.
BulkIsAtomic ==
  \A T \in {Section, Setting} : \A r, s \in T : row[r].val = row[s].val

\* A content that can be opened has its topic, although an update writes back the
\* topic_id it read before the topic may have been deleted.
NoOrphans == \A c \in Content : row[c].live => row[row[c].group].live

\* What the caller is told agrees with what happened: success means changed and
\* logged, a refusal means unchanged.  Only toggle_active may change the flag and
\* answer 404, when the project is deleted before it reads it again.
AnswersAreHonest ==
  \A a \in Admin :
    /\ req[a].result = "ok" => req[a].changed /\ a \in Range(activity)
    /\ a \in Range(activity) => req[a].changed
    /\ req[a].result \in {"404", "422"} => ~req[a].changed \/ req[a].kind = "toggle"

\* Paging through a listing meets every row exactly once.
Pages(perPage, total) == 1..LastPage(ClampPerPage(perPage), total)

MeetsOnce(page, total) ==
  /\ Cardinality(UNION Range(page)) = total
  /\ \A m, n \in DOMAIN page : m # n => page[m] \cap page[n] = {}

PagesPartition ==
  \A perPage \in 0..2 :
    /\ \A published \in BOOLEAN, sub \in DOMAIN SubjectOf \cup {NoOne} :
         LET Index(n) == FindTopics(published, sub, ParsePage(n, perPage))
         IN  MeetsOnce([n \in Pages(perPage, Index(1).total) |-> Index(n).items], Index(1).total)
    /\ \A t \in Topic \cup {NoOne} :
         LET Index(n) == FindContents(t, ParsePage(n, perPage))
         IN  MeetsOnce([n \in Pages(perPage, Index(1).total) |-> Index(n).items], Index(1).total)
    /\ LET Index(n) == FindGallery(ParsePage(n, perPage))
       IN  MeetsOnce([n \in Pages(perPage, Index(1).total) |-> Index(n).items], Index(1).total)
    /\ \A a \in Admin \cup {NoOne} :
         LET Index(n) == FindActivity(a, ParsePage(n, perPage))
         IN  MeetsOnce([n \in Pages(perPage, Index(1).total) |-> Index(n).items], Index(1).total)

WholePage == ParsePage(1, MaxPerPage)

\* The listings and the detail pages tell one story, although they read with
\* different statements: a topic has as many contents in the index as on its page,
\* in the same order, under the same subject; a content that is listed can be
\* opened and names the same topic in every listing; and a boolean setting is
\* shown as what the last admin meant, however it was spelled.  Pages of a listing
\* that does not change partition it.
ReadsAgree ==
  /\ PagesPartition
  /\ \A r \in TopicIndex(FALSE, NoOne, FALSE, WholePage) :
       LET show == ShowTopic(r.topic)
       IN  /\ r.contents_count = Len(show.contents)
           /\ r.taxonomy = show.taxonomy /\ r.personalization = show.personalization
  /\ \A r \in TopicIndex(FALSE, NoOne, TRUE, WholePage) : r = ShowTopic(r.topic)
  /\ \A t \in Topic : \A r \in ContentIndex(t, WholePage) :
       r.content \in Range(ShowTopic(t).contents) /\ r.topic = t
  /\ \A r \in ContentIndex(NoOne, WholePage) \cup GalleryIndex(WholePage) :
       r = FindContentById(r.content)
  /\ \A k \in Setting, a \in Admin : row[k].val = a =>
       SettingResource(k) = IF SettingType[k] = "boolean" THEN RawOf[a] \in Truthy ELSE RawOf[a]
================================================================================
