SPECIFICATION ChannelSpec
CONSTANTS
    h1 = h1
    h2 = h2
    worker = worker
    tester = tester
    add1 = add1
    remove1 = remove1
    remove2 = remove2
    run1 = run1
    run2 = run2
    post1 = post1
    post2 = post2
    m1 = m1
    Humans = {h1, h2}
    Pets = {worker, tester}
    Founders = {h1, h2, worker}
    Adds = {add1}
    Removes = {remove1, remove2}
    Who <- Whom
    Actor <- By
    Studio = Studio
    Posts = {post1, post2}
    Direct = {run1, run2}
    Ref <- Message
    Cause <- From
    Target <- Runner
    NoCall = NoCall
    MaxCrashes = 2
INVARIANTS HumanRemains BindingsAreKept MentionsRunOnce
CHECK_DEADLOCK FALSE
