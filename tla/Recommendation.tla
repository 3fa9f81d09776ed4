---------------------------- MODULE Recommendation -----------------------------
(***************************************************************************)
(* The home page's feed (GET /homepage-recommendations): what it reads, in *)
(* which order, how recommended projects and published topics are merged,  *)
(* selected for a teacher and sorted, and how what was served is written   *)
(* to system_recommendation_assignments.                                   *)
(*                                                                         *)
(* Every query of the handler is a statement of its own, without a         *)
(* transaction, so administrators edit the tables between two of them.     *)
(* A request takes its moment when it arrives and writes its assignments   *)
(* last.  Titles, thumbnails, modules and the wording of the answer are    *)
(* left out.                                                               *)
(***************************************************************************)
EXTENDS Integers, FiniteSets, Sequences, SequencesExt, FiniteSetsExt

CONSTANTS
  Topic, Project,    \* ids of rows
  User,              \* teachers with an account
  Request,           \* requests; each is made once
  NoOne,             \* NULL, and the guest
  SubjectOf,         \* the subject of each sub-subject (numbered)
  Primary,           \* the primary subject of each teacher, or NoOne
  StartTopic,        \* topics at the start: [sub, teacher, order, created, updated]
  StartProject,      \* projects: [source, ref, sub, subject, eligible, priority,
                     \*            score, created, updated]
  StartActive,       \* the sets of projects that may be active at the start
  IdRank,            \* the order of item ids as strings
  MaxEdits           \* bound: edits by administrators

SubSubject == DOMAIN SubjectOf

\* Ids of topics, projects and of what projects refer to.
EveryId == Topic \cup Project \cup ({StartProject[p].ref : p \in Project} \ {NoOne})

\* The columns the feed reads, each of its type.  A row's id is no other row's id, and
\* no reference to a project; an "ai_generated" project refers to a generation.
ASSUME RecommendationAssumption ==
  /\ NoOne \notin User \cup Topic \cup Project \cup SubSubject
  /\ NoOne \notin {"global_feed", "primary_subject_catalog"}
  /\ SubSubject \subseteq Nat /\ MaxEdits \in Nat
  /\ \A s \in SubSubject : SubjectOf[s] \in Nat
  /\ IsFiniteSet(SubSubject) /\ IsFiniteSet(Topic) /\ IsFiniteSet(Project)
  /\ Topic \cap Project = {}
  /\ \A x \in EveryId : IdRank[x] \in Int
  /\ \A x, y \in EveryId : IdRank[x] = IdRank[y] => x = y
  /\ StartActive \subseteq SUBSET Project
  /\ DOMAIN StartTopic = Topic /\ DOMAIN StartProject = Project
  /\ \A t \in Topic :
       /\ StartTopic[t].sub \in SubSubject \cup {NoOne}
       /\ StartTopic[t].created \in Int /\ StartTopic[t].updated \in Int
  /\ \A p \in Project :
       /\ StartProject[p].source \in {"admin_upload", "system_topic", "ai_generated"}
       /\ StartProject[p].priority \in Int /\ StartProject[p].score \in Int
       /\ StartProject[p].created \in Int /\ StartProject[p].updated \in Int
       /\ StartProject[p].ref \notin Project
  /\ \A p, q \in Project :
       StartProject[p].source = StartProject[q].source /\ StartProject[p].ref # NoOne
         => (StartProject[p].ref = StartProject[q].ref => p = q)
  /\ \A p \in Project : StartProject[p].source = "ai_generated"
                          => StartProject[p].ref \notin Topic
  /\ \A p, q \in Project :
       StartProject[p].source = "ai_generated" /\ StartProject[q].source = "system_topic"
         => (StartProject[p].ref = StartProject[q].ref => StartProject[p].ref = NoOne)

VARIABLES
  topic,        \* topics, what is edited: [published, sub, updated]
  project,      \* recommended_projects, what is edited: [active, updated]; active stands
                \* for is_active and the window from starts_at to ends_at
  enabled,      \* is_enabled of the section project_recommendations
  assignment,   \* system_recommendation_assignments, by user and key
  req,          \* where each request stands
  now,          \* the clock
  edits         \* edits made so far

tables == <<topic, project, enabled>>
vars == <<topic, project, enabled, assignment, req, now, edits>>

--------------------------------------------------------------------------------
(* Order.                                                                  *)

LexLess(a, b) == \E i \in 1..Len(a) : /\ a[i] < b[i]
                                      /\ \A j \in 1..(i - 1) : a[j] = b[j]

\* The results of ORDER BY: rows that tie come in any order.
Orderings(S, key(_)) ==
  {s \in SetToSeqs(S) :
     \A i, j \in DOMAIN s : i < j => ~LexLess(key(s[j]), key(s[i]))}

\* The elements of s at the positions in P, in their order.
Pick(s, P) ==
  [k \in 1..Cardinality(P) |-> s[CHOOSE i \in P : Cardinality({j \in P : j < i}) = k - 1]]

\* The elements of a set by their number of predecessors under a total order.
InOrder(S, before(_, _)) ==
  [k \in 1..Cardinality(S) |->
     CHOOSE x \in S : Cardinality({y \in S : before(y, x)}) = k - 1]

Top == 99            \* usize::MAX, the rank of what was not selected
MaxLimit == 50       \* the longest answer

--------------------------------------------------------------------------------
(* Personalization.                                                        *)

\* Published topics of the teacher by sub-subject: most topics first, then the
\* latest activity, then the id.
QueryAuthoredTopicActivity(u) ==
  LET own(s) == {t \in Topic : /\ topic[t].published /\ StartTopic[t].teacher = u
                               /\ topic[t].sub = s}
      key(s) == <<-Cardinality(own(s)), -Max({topic[t].updated : t \in own(s)}), s>>
      before(s, q) == LexLess(key(s), key(q))
  IN  InOrder({s \in SubSubject : own(s) # {}}, before)

ResolveFallbackMode(primary, activity, preferred) ==
  CASE primary = NoOne /\ activity = <<>> -> "global_feed"
    [] primary # NoOne /\ preferred = <<>> -> "primary_subject_catalog"
    [] OTHER -> NoOne

GuestContext ==
  [signals |-> FALSE, primary |-> NoOne, preferred |-> <<>>, secondary |-> <<>>,
   fallback |-> "global_feed"]

AuthenticatedContext(primary, activity) ==
  LET Matches(s) == primary = NoOne \/ SubjectOf[s] = primary
      preferred == Pick(activity, {i \in DOMAIN activity : Matches(activity[i])})
  IN  [signals   |-> primary # NoOne \/ activity # <<>>,
       primary   |-> primary,
       preferred |-> preferred,
       secondary |-> Pick(activity, {i \in DOMAIN activity : ~Matches(activity[i])}),
       fallback  |-> ResolveFallbackMode(primary, activity, preferred)]

BuildPersonalizationContext(u) ==
  IF u = NoOne THEN GuestContext
  ELSE AuthenticatedContext(Primary[u], QueryAuthoredTopicActivity(u))

--------------------------------------------------------------------------------
(* Items of the feed.                                                      *)

MakeSourceKey(source, ref) == <<source, ref>>

\* A project's sub-subject and subject come from its source_payload.
NormalizeCuratedItem(p) ==
  LET row == StartProject[p]
  IN  [id |-> p, source |-> row.source, ref |-> row.ref, sub |-> row.sub,
       subject |-> row.subject, eligible |-> row.eligible, priority |-> row.priority,
       score |-> row.score, created |-> row.created, updated |-> project[p].updated,
       group |-> 4, rank |-> Top]

NormalizeTopicItem(t) ==
  [id |-> t, source |-> "system_topic", ref |-> t, sub |-> topic[t].sub,
   subject |-> SubjectOf[topic[t].sub], eligible |-> TRUE, priority |-> 0,
   score |-> 0, created |-> StartTopic[t].created, updated |-> topic[t].updated,
   group |-> 4, rank |-> Top]

IsAdmin(item) == item.source = "admin_upload"
IsSystem(item) == ~IsAdmin(item)

FindVisible ==
  LET key(p) == <<-StartProject[p].priority, -StartProject[p].created>>
  IN  Orderings({p \in Project : project[p].active}, key)

QueryPublishedTopics ==
  LET key(t) == <<StartTopic[t].order, -StartTopic[t].created>>
  IN  Orderings({t \in Topic : topic[t].published /\ topic[t].sub # NoOne}, key)

\* Mutant: keyed by the project's own id.
MutantSuppressedSourceKeys(curated) ==
  {MakeSourceKey(curated[i].source, curated[i].id) : i \in {j \in DOMAIN curated :
     IsSystem(curated[j]) /\ curated[j].ref # NoOne}}

\* What the projects that were read stand for is not shown a second time.
SuppressedSourceKeys(curated) ==
  {MakeSourceKey(curated[i].source, curated[i].ref) : i \in {j \in DOMAIN curated :
     IsSystem(curated[j]) /\ curated[j].ref # NoOne}}

--------------------------------------------------------------------------------
(* Selection of system items for a teacher.                                *)

IsEligible(item) ==
  /\ IsSystem(item)
  /\ item.sub # NoOne /\ item.subject # NoOne
  /\ item.source = "system_topic" => item.eligible

\* The last position of each id.
BuildRankLookup(ids) ==
  [s \in ToSet(ids) |-> Max({i \in DOMAIN ids : ids[i] = s}) - 1]

\* Sub-subjects of the primary subject in which the teacher wrote nothing, by id.
\* A sub-subject's rank is the position of its last item.
BuildPrimarySubjectCatalogLookup(items, ctx) ==
  LET excluded == ToSet(ctx.preferred) \cup ToSet(ctx.secondary)
      Listed(item) == /\ ctx.primary # NoOne /\ IsEligible(item)
                      /\ item.subject = ctx.primary /\ item.sub \notin excluded
      candidates == {i \in DOMAIN items : Listed(items[i])}
      upTo(s) == Cardinality({i \in candidates : items[i].sub <= s})
  IN  [s \in {items[i].sub : i \in candidates} |-> upTo(s) - 1]

Selection(item, ctx, catalog) ==
  LET preferred == BuildRankLookup(ctx.preferred)
      secondary == BuildRankLookup(ctx.secondary)
      s == item.sub
  IN  IF ~IsEligible(item)           THEN [group |-> 4, rank |-> Top]
      ELSE IF s \in DOMAIN preferred THEN [group |-> 0, rank |-> preferred[s]]
      ELSE IF item.subject = ctx.primary /\ s \in DOMAIN catalog
                                     THEN [group |-> 1, rank |-> catalog[s]]
      ELSE IF s \in DOMAIN secondary THEN [group |-> 2, rank |-> secondary[s]]
                                     ELSE [group |-> 3, rank |-> Top]

Annotated(items, ctx) ==
  LET catalog == BuildPrimarySubjectCatalogLookup(items, ctx)
      selection(i) == Selection(items[i], ctx, catalog)
  IN  [i \in DOMAIN items |-> [items[i] EXCEPT !.group = selection(i).group,
                                              !.rank = selection(i).rank]]

\* Mutant: the items that match nothing count as selected.
MutantSelected(item) == item.group < 4

Selected(item) == item.group < 3

\* Without signals, or when nothing matches them, every item is served.
SelectSystemGeneratedCandidates(items, ctx) ==
  LET all == Annotated(items, ctx)
      selected == Pick(all, {i \in DOMAIN all : Selected(all[i])})
  IN  IF ~ctx.signals \/ selected = <<>> THEN items ELSE selected

--------------------------------------------------------------------------------
(* The feed.                                                               *)

CommonKey(item) == <<-item.priority, -item.score, -item.created, IdRank[item.id]>>

\* Mutant: the rank before the group.
MutantCompareItems(a, b) ==
  IF IsSystem(a) /\ IsSystem(b)
  THEN LexLess(<<a.rank, a.group, -a.updated>> \o CommonKey(a),
               <<b.rank, b.group, -b.updated>> \o CommonKey(b))
  ELSE LexLess(CommonKey(a), CommonKey(b))

CompareItems(a, b) ==
  IF IsSystem(a) /\ IsSystem(b)
  THEN LexLess(<<a.group, a.rank, -a.updated>> \o CommonKey(a),
               <<b.group, b.rank, -b.updated>> \o CommonKey(b))
  ELSE LexLess(CommonKey(a), CommonKey(b))

\* slice::sort_by on up to 20 items: each one moves left past the items it is less
\* than.  CompareItems is no order when admin uploads and system items mix.
Sorted(items) ==
  LET place(s, x) == Max({0} \cup {i \in DOMAIN s : ~CompareItems(x, s[i])})
      sorted[n \in 0..Len(items)] ==
        IF n = 0 THEN <<>>
        ELSE InsertAt(sorted[n - 1], 1 + place(sorted[n - 1], items[n]), items[n])
  IN  sorted[Len(items)]

\* Projects other than admin uploads first, then the topics no project stands for.
SystemItems(curated, topics) ==
  Pick(curated, {i \in DOMAIN curated : IsSystem(curated[i])})
    \o Pick(topics, {i \in DOMAIN topics : MakeSourceKey("system_topic", topics[i].ref)
                                              \notin SuppressedSourceKeys(curated)})

BuildFeedSnapshot(curated, topics, ctx) ==
  Sorted(Pick(curated, {i \in DOMAIN curated : IsAdmin(curated[i])})
           \o SelectSystemGeneratedCandidates(SystemItems(curated, topics), ctx))

Shown(feed, limit) ==
  SubSeq(feed, 1, Min({Len(feed), MaxLimit, IF limit = NoOne THEN MaxLimit ELSE limit}))

--------------------------------------------------------------------------------
(* Assignments.                                                            *)

DefaultTrackableSourceTypes == {"system_topic", "ai_generated"}

ResolveSourceReference(item) == IF item.ref # NoOne THEN item.ref ELSE item.id

RecommendationKey(item) == MakeSourceKey(item.source, ResolveSourceReference(item))

\* The items to record: of a trackable type, the first of each key.
Trackable(feed) ==
  LET kept == {i \in DOMAIN feed : feed[i].source \in DefaultTrackableSourceTypes}
  IN  Pick(feed, {i \in kept : \A j \in kept :
                    j < i => RecommendationKey(feed[j]) # RecommendationKey(feed[i])})

\* INSERT ... ON CONFLICT (user_id, recommendation_key) DO UPDATE: everything but
\* first_distributed_at is overwritten.
Upsert(u, item, moment) ==
  LET k == <<u, RecommendationKey(item)>>
      first == IF k \in DOMAIN assignment THEN assignment[k].first ELSE moment
      row == [item |-> item.id, subject |-> item.subject, sub |-> item.sub,
              first |-> first, last |-> moment]
  IN  assignment' = [x \in DOMAIN assignment \cup {k} |-> IF x = k THEN row ELSE assignment[x]]

ServedUsers(key, subject, sub) ==
  {u \in User : /\ <<u, key>> \in DOMAIN assignment
                /\ assignment[<<u, key>>].subject = subject
                /\ assignment[<<u, key>>].sub = sub}

FindDistributionSummary(minimum) ==
  LET groups == {<<k[2], assignment[k].subject, assignment[k].sub>> :
                   k \in {x \in DOMAIN assignment : assignment[x].sub # NoOne}}
      users(g) == ServedUsers(g[1], g[2], g[3])
  IN  {[key |-> g[1], subject |-> g[2], sub |-> g[3], users |-> Cardinality(users(g)),
        latest |-> Max({assignment[<<u, g[1]>>].last : u \in users(g)})] :
         g \in {h \in groups : Cardinality(users(h)) >= minimum}}

CompareDistributionCandidates(a, b) ==
  LexLess(<<-a.users, -a.latest, IdRank[a.key[2]]>>, <<-b.users, -b.latest, IdRank[b.key[2]]>>)

\* The best of every sub-subject, subjects and sub-subjects in the order of their ids.
GroupAndSortDistribution(rows, perSubSubject) ==
  LET better(a) == {b \in rows : b.sub = a.sub /\ CompareDistributionCandidates(b, a)}
      kept == {a \in rows : Cardinality(better(a)) < perSubSubject}
      before(a, b) ==
        \/ LexLess(<<SubjectOf[a.sub], a.sub>>, <<SubjectOf[b.sub], b.sub>>)
        \/ a.sub = b.sub /\ CompareDistributionCandidates(a, b)
  IN  InOrder(kept, before)

MinimumDistinctUserCount == 2
MaximumItemsPerSubSubject == 1

BuildSystemDistributionSummary ==
  GroupAndSortDistribution({a \in FindDistributionSummary(MinimumDistinctUserCount) :
                              /\ a.key[1] \in DefaultTrackableSourceTypes
                              /\ a.sub \in SubSubject},
                           MaximumItemsPerSubSubject)

--------------------------------------------------------------------------------
(* A request, one step per statement.                                      *)

Idle == [at |-> "idle", user |-> NoOne, moment |-> 0, on |-> FALSE, ctx |-> GuestContext,
         curated |-> <<>>, topics |-> <<>>, feed |-> <<>>, todo |-> <<>>, failed |-> FALSE]

\* A bearer token that does not decode makes the caller a guest.
Arrive(r, u) ==
  /\ req[r].at = "idle"
  /\ req' = [req EXCEPT ![r].at = "section", ![r].user = u, ![r].moment = now]
  /\ now' = now + 1
  /\ UNCHANGED <<tables, assignment, edits>>

LoadSection(r) ==
  /\ req[r].at = "section"
  /\ req' = [req EXCEPT ![r].at = "context", ![r].on = enabled]
  /\ UNCHANGED <<tables, assignment, now, edits>>

\* The context is built even for a disabled section, whose answer is empty.
ReadContext(r) ==
  /\ req[r].at = "context"
  /\ req' = [req EXCEPT ![r].at = IF req[r].on THEN "projects" ELSE "answered",
                        ![r].ctx = BuildPersonalizationContext(req[r].user)]
  /\ UNCHANGED <<tables, assignment, now, edits>>

ReadProjects(r) ==
  /\ req[r].at = "projects"
  /\ \E ps \in FindVisible :
       req' = [req EXCEPT ![r].at = "topics",
                          ![r].curated = [i \in DOMAIN ps |-> NormalizeCuratedItem(ps[i])]]
  /\ UNCHANGED <<tables, assignment, now, edits>>

\* The lookups and the distribution summary, read next, do not enter the feed.
\* Nothing of a guest is recorded; of a teacher the whole feed is, also the items
\* past the limit.
ReadTopics(r) ==
  /\ req[r].at = "topics"
  /\ \E ts \in QueryPublishedTopics :
       LET topics == [i \in DOMAIN ts |-> NormalizeTopicItem(ts[i])]
           feed == BuildFeedSnapshot(req[r].curated, topics, req[r].ctx)
           todo == IF req[r].user = NoOne THEN <<>> ELSE Trackable(feed)
       IN  req' = [req EXCEPT ![r].at = IF todo = <<>> THEN "answered" ELSE "track",
                              ![r].topics = topics, ![r].feed = feed, ![r].todo = todo]
  /\ UNCHANGED <<tables, assignment, now, edits>>

\* A read fails (500), or the account of the token is gone (404).  Nothing was written.
Refuse(r) ==
  /\ req[r].at \in {"section", "context", "projects", "topics"}
  /\ req' = [req EXCEPT ![r] = [Idle EXCEPT !.at = "refused"]]
  /\ UNCHANGED <<tables, assignment, now, edits>>

\* Mutant: stops after the first item.
MutantTrackServed(r) ==
  /\ req[r].at = "track"
  /\ Upsert(req[r].user, Head(req[r].todo), req[r].moment)
  /\ req' = [req EXCEPT ![r].at = "answered", ![r].todo = <<>>]
  /\ UNCHANGED <<tables, now, edits>>

TrackServed(r) ==
  /\ req[r].at = "track"
  /\ Upsert(req[r].user, Head(req[r].todo), req[r].moment)
  /\ req' = [req EXCEPT ![r].todo = Tail(@),
                        ![r].at = IF Len(req[r].todo) = 1 THEN "answered" ELSE "track"]
  /\ UNCHANGED <<tables, now, edits>>

\* The rest is not recorded; the error is logged and the feed served all the same.
TrackFails(r) ==
  /\ req[r].at = "track"
  /\ req' = [req EXCEPT ![r].at = "answered", ![r].failed = TRUE]
  /\ UNCHANGED <<tables, assignment, now, edits>>

--------------------------------------------------------------------------------
(* Administrators.                                                         *)

Edit == /\ edits < MaxEdits
        /\ edits' = edits + 1
        /\ now' = now + 1
        /\ UNCHANGED <<assignment, req>>

SetPublish(t) ==
  /\ Edit
  /\ topic' = [topic EXCEPT ![t].published = ~@, ![t].updated = now]
  /\ UNCHANGED <<project, enabled>>

\* An update may file a topic under another sub-subject, or under none.
UpdateTopic(t) ==
  /\ Edit
  /\ \E s \in (SubSubject \cup {NoOne}) \ {topic[t].sub} :
       topic' = [topic EXCEPT ![t].sub = s, ![t].updated = now]
  /\ UNCHANGED <<project, enabled>>

ToggleActive(p) ==
  /\ Edit
  /\ project' = [project EXCEPT ![p].active = ~@, ![p].updated = now]
  /\ UNCHANGED <<topic, enabled>>

ToggleSection ==
  /\ Edit
  /\ enabled' = ~enabled
  /\ UNCHANGED <<topic, project>>

--------------------------------------------------------------------------------
Init ==
  /\ topic = [t \in Topic |-> [published |-> TRUE, sub |-> StartTopic[t].sub,
                               updated |-> StartTopic[t].updated]]
  /\ \E A \in StartActive :
       project = [p \in Project |-> [active |-> p \in A, updated |-> StartProject[p].updated]]
  /\ enabled = TRUE
  /\ assignment = <<>>
  /\ req = [r \in Request |-> Idle]
  /\ now = 1 + Max({0} \cup {StartTopic[t].updated : t \in Topic}
                       \cup {StartProject[p].updated : p \in Project})
  /\ edits = 0

Serve(r) ==
  \/ \E u \in User \cup {NoOne} : Arrive(r, u)
  \/ LoadSection(r) \/ ReadContext(r) \/ ReadProjects(r) \/ ReadTopics(r)
  \/ Refuse(r) \/ TrackServed(r) \/ TrackFails(r)

Next ==
  \/ \E r \in Request : Serve(r)
  \/ \E t \in Topic : SetPublish(t) \/ UpdateTopic(t)
  \/ \E p \in Project : ToggleActive(p)
  \/ ToggleSection

Spec == Init /\ [][Next]_vars

--------------------------------------------------------------------------------
(* Properties.                                                             *)

Built(q) == q.at \in {"track", "answered"} /\ q.on
Items(seq) == {seq[i] : i \in DOMAIN seq}
Ids(seq) == {seq[i].id : i \in DOMAIN seq}

\* The projects and the topics are two reads with edits between them.  Still no
\* feed shows a topic next to the project that stands for it, or an item twice;
\* every admin upload that was read is in it, and it is empty only when there was
\* nothing to show.
NothingTwiceNothingLost ==
  \A r \in Request : Built(req[r]) =>
    LET q == req[r]
    IN  /\ \A i, j \in DOMAIN q.feed :
             RecommendationKey(q.feed[i]) = RecommendationKey(q.feed[j]) => i = j
        /\ {c.id : c \in {x \in Items(q.curated) : IsAdmin(x)}} \subseteq Ids(q.feed)
        /\ q.feed = <<>> => q.curated = <<>> /\ q.topics = <<>>

\* A teacher is served all system items or only those that match: of a sub-subject
\* the teacher wrote about or of the primary subject.  The context was read before
\* the items, so nothing may be left that matches; then all are served.  The
\* fallback the context announces is the one that happens.
FeedFitsTheTeacher ==
  \A r \in Request : Built(req[r]) =>
    LET q == req[r]
        wrote == ToSet(q.ctx.preferred) \cup ToSet(q.ctx.secondary)
        offered == {x \in Items(q.curated) \cup Items(q.topics) : IsSystem(x)}
        served == {x \in Items(q.feed) : IsSystem(x)}
        fits(x) == /\ x.sub # NoOne /\ x.source = "system_topic" => x.eligible
                   /\ x.sub \in wrote \/ x.subject = q.ctx.primary
        whole == \A x \in offered : \/ x.id \in Ids(q.feed)
                                    \/ \E y \in offered : /\ y.source = x.source
                                                          /\ y.ref = x.ref /\ y # x
    IN  /\ whole \/ \A x \in served : fits(x)
        /\ q.ctx.fallback = "global_feed" => whole
        /\ q.ctx.fallback = "primary_subject_catalog" => \A x \in served : x.group # 0

\* compare_items is no order when admin and system items mix: an admin upload
\* compares with a system item by priority and age, two system items by what the
\* teacher wrote about.  What the sort still guarantees: admin uploads come by
\* their priority, a system item next to another one is not better placed than it,
\* and in a feed without admin uploads all of them go by group and rank.
FeedIsInOrder ==
  \A r \in Request : Built(req[r]) =>
    LET f == req[r].feed
        mixed == \E i \in DOMAIN f : IsAdmin(f[i])
    IN  \A i, j \in DOMAIN f : i < j =>
          /\ IsAdmin(f[i]) /\ IsAdmin(f[j]) => f[i].priority >= f[j].priority
          /\ IsSystem(f[i]) /\ IsSystem(f[j]) /\ (~mixed \/ j = i + 1) =>
               \/ f[i].group < f[j].group
               \/ f[i].group = f[j].group /\ f[i].rank <= f[j].rank

\* The distribution summary names, for each sub-subject, the item most teachers
\* were served under that sub-subject, and none that fewer than two were.
SummaryIsHonest ==
  LET summary == BuildSystemDistributionSummary
      served(k, s) == {u \in User : /\ <<u, k>> \in DOMAIN assignment
                                    /\ assignment[<<u, k>>].sub = s}
      keys == {k[2] : k \in DOMAIN assignment}
  IN  /\ \A e \in Items(summary) : e.users = Cardinality(served(e.key, e.sub)) /\ e.users > 1
      /\ \A k \in keys, s \in SubSubject : Cardinality(served(k, s)) > 1 =>
           \E e \in Items(summary) : e.sub = s /\ e.users >= Cardinality(served(k, s))
      /\ \A i, j \in DOMAIN summary : i < j =>
           /\ summary[i].sub # summary[j].sub
           /\ SubjectOf[summary[i].sub] <= SubjectOf[summary[j].sub]

\* Rows of a teacher's assignments are written one by one, after the answer is
\* fixed and next to other requests of the same teacher.  Unless a write fails,
\* everything shown under any limit is recorded, and no row names an item, a
\* sub-subject or a time that was not served to that teacher.  What is summed up
\* over all teachers is true of these rows.
ServedIsRecorded ==
  /\ \A r \in Request :
       LET q == req[r]
       IN  q.at = "answered" /\ q.on /\ q.user \in User /\ ~q.failed =>
             \A limit \in {NoOne, 1, MaxLimit + 1} : \A x \in Items(Shown(q.feed, limit)) :
               IsSystem(x) => <<q.user, RecommendationKey(x)>> \in DOMAIN assignment
  /\ \A k \in DOMAIN assignment :
       LET served(a, m) == \E r \in Request : /\ req[r].user = k[1] /\ req[r].moment = m
                                              /\ \E x \in Items(req[r].feed) :
                                                   /\ RecommendationKey(x) = k[2]
                                                   /\ x.id = a.item /\ x.sub = a.sub
       IN  /\ served(assignment[k], assignment[k].last)
           /\ \E r \in Request : req[r].moment = assignment[k].first /\ req[r].user = k[1]
  /\ SummaryIsHonest
================================================================================
