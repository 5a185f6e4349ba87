SPECIFICATION Spec
CONSTANTS
    A = A
    B = B
    C = C
    p = p
    q = q
    s1 = s1
    s2 = s2
    s3 = s3
    n1 = n1
    n2 = n2
    n3 = n3
    k1 = k1
    Hosts = {A, B, C}
    Ports = {p}
    Sources = {s1, s2, s3}
    NewBuckets = {n1, n2, n3}
    TriedBuckets = {k1}
    NewBucketOf <- MCNewBucketOf
    TriedBucketOf <- MCTriedBucketOf
    NewBucketSize = 1
    TriedBucketSize = 1
    BucketsPerAddress = 2
    Inspect = 4
    MaxId = 3
    MaxTime = 1
INVARIANT
    TablesAgree
PROPERTIES
    ReloadKeeps
    TriedNotDeleted
