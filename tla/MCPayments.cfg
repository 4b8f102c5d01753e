\* Two calls of any kind, an offer and an invoice, payments of two parts,
\* one crash.
CONSTANTS
    Calls = {c1, c2}
    Offers = {offer}
    Invoices = {invoice}
    MaxParts = 2
    MaxRestarts = 1
    None = None
SPECIFICATION FairSpec
INVARIANTS TypeOK SuccessIsOwn ReceiptsPaidInFull ProofsKept
PROPERTIES Answered
CHECK_DEADLOCK FALSE
