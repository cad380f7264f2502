\* Sends, fetches and scans one after the other, over a target that resets
\* late or not at all and a connection that breaks anywhere, while the file
\* that is sent is replaced, cleared and staged again.
CONSTANTS
    f1 = f1
    f2 = f2
    f3 = f3
    Files <- ThreeFiles
    NoFile = NoFile
    OnCard = {f1, f2}
    Staged = {f1}
    Requests <- SendAndPull
    MaxUploads = 2
    MaxChords = 1
SPECIFICATION Spec
INVARIANTS LeftInNetIsTrue OkMeansDelivered
PROPERTIES ClearedIsOnTarget NotTypedOver
