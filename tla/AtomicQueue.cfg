\* Three threads, each of which may enqueue and become the consumer; three items
\* that are enqueued again and again.
SPECIFICATION Spec
CONSTANTS
    Threads = {t1, t2, t3}
    Items = {i1, i2, i3}
INVARIANT OneConsumer
PROPERTIES
    ImplementsRemoteQueue
    EnqueuedIsRun
