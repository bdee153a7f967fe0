SPECIFICATION FairSpec
CONSTANTS
    p1 = p1
    p2 = p2
    create1 = create1
    again1 = again1
    create2 = create2
    rename1 = rename1
    Pets = {p1, p2}
    Requests = {create1, again1, create2, rename1}
    Boot = Boot
    PetOf <- RequestPets
    Renames = {rename1}
    MaxFaults = 1
    MaxLostDeletes = 1
    MaxRestarts = 1
INVARIANTS ServedAsRecorded CloseLeavesNothing
PROPERTIES RestoredPetsSettle
CHECK_DEADLOCK FALSE
