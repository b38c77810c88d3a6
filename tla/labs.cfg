CONSTANTS
    QueueSize = 3
    Message = {"reply1", "reply2"}
    Blank = "blank"
    Producers = {1, 2}
    Consumers = {3, 4, 5}
    TamanhoFila = 2
    MaxIteracoes = 2
    Broadcast = TRUE
    Frogs = {"sapo0", "sapo1", "sapo2"}
    Creators = {1, 2}
    Others = {3}
    PairsEach = 2
    MaxKills = 1
    Additions = 2
    SumStarts = 2
    BufSize = 3
    MaxInput = 9
    PrintStarts = 2
    MaxLines = 3
    Turns = 3
    PsOutput = 3
    PipeCapacity = 2
    NumFilho1 = 3
    NumFilho2 = 8
SPECIFICATION FairLabs
INVARIANT BufferSafe PlacesAreOrdinals PairsUnbroken NoAdditionLost PrintsAreExact
          ReceptionsAreWhole ShownOnce StrangerSpared
PROPERTY ImplementsFifo RingIsFifo EveryWaiterEnters SumsEnd BothEnd PipelineEnds ProductEnds
         NobodyForgotten
CHECK_DEADLOCK FALSE
