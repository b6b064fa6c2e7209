\* One NPC with a policy, one trigger per pair in a minute.
CONSTANTS
    agent = agent
    ann = ann
    customer = customer
    Agent = agent
    Person = {agent, ann, customer}
    Managed = {ann}
    Cap = 1
    Window = 0
    Channels <- OneChannel
    Threads <- OneThread
    ChatCalls <- OneChat
    EmailCalls <- NewAndReply
    Actors = {customer}
    DmCalls = {ann}
    Bookings <- OneBooking
    MaxTime = 1
    MaxInserts = 3
    MaxBundles = 2
SPECIFICATION Spec
INVARIANTS TypeOK HopBound SubscribersAgree EachRowOnce NoRowMissed
    RecipientsCanRead
CHECK_DEADLOCK FALSE
