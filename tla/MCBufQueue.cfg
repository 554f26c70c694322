SPECIFICATION QueueSpec
CONSTANTS
    QUEUE_SIZE = 4
    Values <- MCValues
PROPERTY RefinesFifo
