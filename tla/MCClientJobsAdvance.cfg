SPECIFICATION Spec
CONSTANTS
    Jobs = {j1}
    Clients = {c1, c2}
    Queues = {q1, q2}
    NextQueue = next
    Data = {d1, d2}
    NoQueue = NoQueue
    NoClient = NoClient
    NoData = NoData
    NoObject = NoObject
PROPERTIES
    AdvancedJobsArrive
