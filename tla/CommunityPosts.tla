---------------------------- MODULE CommunityPosts ----------------------------
(***************************************************************************)
(* The feed of a ticker: posts, comments, likes and reposts in the         *)
(* database (app/social/posts.py, comments.py, likes.py, reposts.py) and   *)
(* what moderation knows of them in one JSON file, changed under a lock    *)
(* between processes (app/social/moderation.py, guardian.py).  A handler   *)
(* crosses from one to the other, and nothing makes the two one.           *)
(***************************************************************************)
EXTENDS Integers, FiniteSets, Sequences

CONSTANTS
    Callers, Users, Moderators,
    Actions,     \* what a moderator may answer, as written: "hide", "Hide", "keep"
    Texts,       \* texts, by the kinds of forbidden content they match
    Threshold,   \* reports that hide a post
    Window, Limit,          \* publications a user has in a window
    MaxReviewed,            \* reviews that are kept
    MaxPosts, MaxCalls, MaxTime  \* bounds

VARIABLES
    now, posts, comments, likes, reposts,
    mod,    \* the moderation file
    call,   \* what each caller is at
    calls   \* calls made
vars == <<now, posts, comments, likes, reposts, mod, call, calls>>
Database == <<posts, comments, likes, reposts>>

Ids == 1..MaxPosts
NoOne == "nobody"
Kinds == {"link", "email", "phone", "betting", "adult", "swear", "hate", "phrase"}

\* posts: author and whether it is still there, in the order of their ids.
Live(p) == p \in DOMAIN posts /\ posts[p].live
NoScore == [score |-> 70, posts |-> 0, others |-> 0, reports |-> 0, removed |-> 0]
NoMod == [reports |-> <<>>, queue |-> <<>>, reviewed |-> <<>>, rate |-> [u \in Users |-> <<>>],
          score |-> [u \in Users |-> NoScore], blocked |-> [u \in Users |-> {}]]
Idle == [at |-> "idle", op |-> "post", user |-> NoOne, post |-> 0, target |-> NoOne, text |-> {}, attached |-> TRUE,
         action |-> "", now |-> 0]
Init ==
    /\ now = 0 /\ calls = 0
    /\ posts = <<>> /\ comments = [p \in Ids |-> 0] /\ likes = {} /\ reposts = {}
    /\ mod = NoMod /\ call = [c \in Callers |-> Idle]

---------------------------------------------------------------------------
(* What the pages read.                                                      *)
Hides == {"hide", "remove"}
Latest(s, p) == LET at == {i \in DOMAIN s : s[i].post = p} IN s[CHOOSE i \in at : \A j \in at : j <= i]
Has(s, p) == \E i \in DOMAIN s : s[i].post = p

\* is_post_hidden: the last review decides, and reports only without one.
Hidden(p) ==
    IF Has(mod.reviewed, p) THEN Latest(mod.reviewed, p).action \in Hides
    ELSE Has(mod.queue, p) /\ Latest(mod.queue, p).hidden

\* get_post
Page(p) == Live(p) /\ ~Hidden(p)

\* One step of get_hidden_post_ids: a post is decided by the first item met.
Met(acc, item, hides) ==
    IF item.post \notin acc.pending THEN acc
    ELSE [pending |-> acc.pending \ {item.post}, hidden |-> IF hides THEN acc.hidden \cup {item.post} ELSE acc.hidden]

\* One of its two loops: over a list from its end, the items at some places hide.
Passed(list, hiding, acc) ==
    LET at(n) == Len(list) - n + 1
        after[n \in 0..Len(list)] ==
            IF n = 0 THEN acc ELSE Met(after[n - 1], list[at(n)], at(n) \in hiding)
    IN after[Len(list)]
Reviews(ids) ==
    Passed(mod.reviewed, {i \in DOMAIN mod.reviewed : mod.reviewed[i].action \in Hides}, [pending |-> ids, hidden |-> {}])
Queue(acc) == Passed(mod.queue, {i \in DOMAIN mod.queue : mod.queue[i].hidden}, acc)

\* Mutant: the pass over the queue starts from all the posts again.
HiddenAmongAgain(ids) == Queue([Reviews(ids) EXCEPT !.pending = ids]).hidden

\* get_hidden_post_ids: both lists, from their ends.
HiddenAmong(ids) == Queue(Reviews(ids)).hidden

\* get_posts
Feed(u) ==
    LET rows == {p \in DOMAIN posts : posts[p].live /\ posts[p].author \notin mod.blocked[u]}
    IN rows \ HiddenAmong(rows)

---------------------------------------------------------------------------
(* What the mutators do to the moderation file.                              *)
Clamped(n) == IF n < 0 THEN 0 ELSE IF n > 100 THEN 100 ELSE n
Scored(m, u, delta, counter) ==
    IF u = NoOne THEN m ELSE [m EXCEPT !.score[u] = [@ EXCEPT !.score = Clamped(@ + delta), ![counter] = @ + 1]]

\* validate_content and _flag_reasons: one match of any kind is enough.
Allowed(text) == text \cap Kinds = {}

\* can_publish: the times within the window of the call's own reading of the
\* clock; a refusal for the rate leaves the file as it was.
Recent(u, t) == SelectSeq(mod.rate[u], LAMBDA s : t - s <= Window)
MayPublish(l) == Allowed(l.text) /\ Len(Recent(l.user, l.now)) < Limit

\* The items of a list that are not about a post, in their order.
Nth(I, k) == CHOOSE i \in I : Cardinality({j \in I : j < i}) = k - 1
Without(list, p) ==
    LET others == {i \in DOMAIN list : list[i].post # p}
    IN [k \in 1..Cardinality(others) |-> list[Nth(others, k)]]

\* report
Reported(m, p, target) ==
    LET reports == Append(m.reports, p)
        count == Cardinality({i \in DOMAIN reports : reports[i] = p})
        item == [post |-> p, hidden |-> count >= Threshold, target |-> target]
    IN Scored([m EXCEPT !.reports = reports, !.queue = Append(Without(@, p), item)],
              target, -10, "reports")

\* review_report: the penalty looks at the action in lower case.
Lower(action) == IF action = "Hide" THEN "hide" ELSE action
Kept(s) == IF Len(s) > MaxReviewed THEN SubSeq(s, Len(s) - MaxReviewed + 1, Len(s)) ELSE s
Reviewed(m, p, action) ==
    LET target == IF Has(m.queue, p) THEN Latest(m.queue, p).target ELSE NoOne
        done == [m EXCEPT !.queue = Without(@, p),
                          !.reviewed = Kept(Append(@, [post |-> p, action |-> action]))]
    IN IF Lower(action) \in Hides THEN Scored(done, target, -15, "removed") ELSE done

---------------------------------------------------------------------------
(* The handlers.  Those about a post first look whether its page is shown.   *)
To(c, step) == call' = [call EXCEPT ![c].at = step]
End(c) == call' = [call EXCEPT ![c] = Idle]

Asked(c, l) == /\ call[c].at = "idle" /\ calls < MaxCalls /\ calls' = calls + 1
               /\ call' = [call EXCEPT ![c] = l] /\ UNCHANGED <<now, mod, Database>>

AskPost(c, u) == \E text \in Texts, ok \in BOOLEAN :
    Asked(c, [Idle EXCEPT !.at = "publish", !.user = u, !.text = text, !.attached = ok, !.now = now])
AskReply(c, u, p) == \E op \in {"comment", "repost"}, text \in Texts :
    Page(p) /\ Asked(c, [Idle EXCEPT !.at = "publish", !.op = op, !.user = u, !.post = p, !.text = text, !.now = now])
AskDelete(c, u, p) == Page(p) /\ Asked(c, [Idle EXCEPT !.at = "delete", !.user = u, !.post = p])
AskReport(c, p) ==
    Asked(c, [Idle EXCEPT !.at = "report", !.post = p, !.target = IF Page(p) THEN posts[p].author ELSE NoOne])
AskReview(c, p) == \E action \in Actions : Asked(c, [Idle EXCEPT !.at = "review", !.post = p, !.action = action])

\* can_publish, then validate_attachment_url, which only refuses: the slot of
\* the rate is taken whether the attachment passes or not.
Publish(c) ==
    LET l == call[c] IN
    /\ l.at = "publish"
    /\ IF MayPublish(l)
       THEN /\ mod' = [mod EXCEPT !.rate[l.user] = Append(Recent(l.user, l.now), l.now)]
            /\ IF l.attached THEN To(c, "insert") ELSE End(c)
       ELSE End(c) /\ UNCHANGED mod
    /\ UNCHANGED <<now, calls, Database>>

InsertPost(c) ==
    LET l == call[c] IN
    /\ l.at = "insert" /\ l.op = "post" /\ Len(posts) < MaxPosts
    /\ posts' = Append(posts, [author |-> l.user, live |-> TRUE])
    /\ To(c, "approve") /\ UNCHANGED <<now, calls, mod, comments, likes, reposts>>

\* The foreign key refuses a reply to a post that has gone; a second repost of
\* the same post is answered with the first.
InsertReply(c) ==
    LET l == call[c] IN
    /\ l.at = "insert" /\ l.op # "post"
    /\ \/ l.op = "comment" /\ Live(l.post)
          /\ comments' = [comments EXCEPT ![l.post] = @ + 1] /\ UNCHANGED reposts /\ To(c, "approve")
       \/ l.op = "repost" /\ Live(l.post) /\ <<l.post, l.user>> \notin reposts
          /\ reposts' = reposts \cup {<<l.post, l.user>>} /\ UNCHANGED comments /\ To(c, "approve")
       \/ (~Live(l.post) \/ (l.op = "repost" /\ <<l.post, l.user>> \in reposts)) /\ End(c) /\ UNCHANGED <<comments, reposts>>
    /\ UNCHANGED <<now, calls, mod, posts, likes>>

\* record_content_approved: after the commit, in the other store.
Approve(c) ==
    LET l == call[c] IN
    /\ l.at = "approve"
    /\ mod' = IF l.op = "post" THEN Scored(mod, l.user, 2, "posts") ELSE Scored(mod, l.user, 1, "others")
    /\ End(c) /\ UNCHANGED <<now, calls, Database>>

\* like_post does not care whether the page is shown; the row needs the post.
Like(c, u, p) ==
    /\ call[c].at = "idle" /\ calls < MaxCalls /\ calls' = calls + 1 /\ Live(p)
    /\ likes' = (IF <<p, u>> \in likes THEN likes \ {<<p, u>>} ELSE likes \cup {<<p, u>>})
    /\ UNCHANGED <<now, posts, comments, reposts, mod, call>>

Unrepost(c, u, p) ==
    /\ call[c].at = "idle" /\ calls < MaxCalls /\ calls' = calls + 1 /\ Page(p) /\ <<p, u>> \in reposts
    /\ reposts' = reposts \ {<<p, u>>} /\ UNCHANGED <<now, posts, comments, likes, mod, call>>

\* delete_post: one transaction, and then the other store.
Delete(c) ==
    LET l == call[c] IN
    /\ l.at = "delete"
    /\ IF Live(l.post) /\ (l.user \in Moderators \/ posts[l.post].author = l.user)
       THEN /\ posts' = [posts EXCEPT ![l.post].live = FALSE] /\ comments' = [comments EXCEPT ![l.post] = 0]
            /\ likes' = {x \in likes : x[1] # l.post} /\ reposts' = {x \in reposts : x[1] # l.post}
            /\ call' = [call EXCEPT ![c].at = "removed", ![c].target = posts[l.post].author]
       ELSE End(c) /\ UNCHANGED Database
    /\ UNCHANGED <<now, calls, mod>>

\* record_post_removed
Removed(c) ==
    /\ call[c].at = "removed" /\ mod' = Scored(mod, call[c].target, -15, "removed")
    /\ End(c) /\ UNCHANGED <<now, calls, Database>>

Report(c) ==
    /\ call[c].at = "report" /\ mod' = Reported(mod, call[c].post, call[c].target)
    /\ End(c) /\ UNCHANGED <<now, calls, Database>>

Review(c) ==
    /\ call[c].at = "review" /\ mod' = Reviewed(mod, call[c].post, call[c].action)
    /\ End(c) /\ UNCHANGED <<now, calls, Database>>

Block(c, u, v) ==
    /\ call[c].at = "idle" /\ calls < MaxCalls /\ calls' = calls + 1 /\ v \notin mod.blocked[u]
    /\ mod' = [mod EXCEPT !.blocked[u] = @ \cup {v}] /\ UNCHANGED <<now, call, Database>>

\* The process ends, or the lock or the disk fails: what was done stays done.
Fail(c) == call[c].at # "idle" /\ End(c) /\ UNCHANGED <<now, calls, mod, Database>>

Tick == now < MaxTime /\ now' = now + 1 /\ UNCHANGED <<calls, call, mod, Database>>

Next ==
    \/ Tick
    \/ \E c \in Callers :
        \/ \E u \in Users : AskPost(c, u)
        \/ \E u \in Users, p \in Ids : AskReply(c, u, p) \/ AskDelete(c, u, p) \/ Like(c, u, p) \/ Unrepost(c, u, p)
        \/ \E p \in Ids : AskReport(c, p) \/ AskReview(c, p)
        \/ \E u, v \in Users : Block(c, u, v)
        \/ Publish(c) \/ InsertPost(c) \/ InsertReply(c) \/ Approve(c) \/ Delete(c) \/ Removed(c) \/ Report(c) \/ Review(c) \/ Fail(c)
Spec == Init /\ [][Next]_vars

---------------------------------------------------------------------------
\* The feed computes what is hidden in one pass for all its posts, the page of a
\* post for that post: whatever order reports, reviews and deletions came in,
\* the two agree.  (moderation.py: "Mesma semântica".)
FeedAgreesWithPage ==
    \A u \in Users : Feed(u) = {p \in DOMAIN posts : Page(p) /\ posts[p].author \notin mod.blocked[u]}

\* What a moderator decided of a post stands against any number of reports, also
\* those under way when the moderator decided, until it is decided again or
\* forgotten.
ReviewStands ==
    \A p \in Ids : Has(mod.reviewed, p) /\ mod'.reviewed = mod.reviewed => (Hidden(p)' <=> Hidden(p))
ReviewOutranksReports == [][ReviewStands]_vars

---------------------------------------------------------------------------
\* A post counts once against its author, whoever took it down.  The code does
\* not keep it: its deletion and the review of its reports both count.
RemovedOnce == \A u \in Users : mod.score[u].removed <= Cardinality({p \in DOMAIN posts : posts[p].author = u})

\* No post is hidden from its first day.  The code does not keep it: reports and
\* reviews are taken of posts that do not exist.
HiddenWasShown == [][\A p \in DOMAIN posts' \ DOMAIN posts : ~Hidden(p)]_vars
===============================================================================
