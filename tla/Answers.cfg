SPECIFICATION Spec
CONSTANTS
    m1 = m1
    m2 = m2
    header = header
    value1 = value1
    value2 = value2
    end = end
    text = text
    ruler = ruler
    e1 = e1
    c1 = c1
    Om = Om
    Zero = Zero
    Null = Null
    Empty = Empty
    Members = {m1, m2}
    Lines = {header, value1, value2, end, text, ruler}
    Elements = {e1}
    Codes = {c1}
    Kind <- MCKind
    Commands <- MCCommands
    Answers <- MCAnswers
INVARIANTS
    TypeOK
    FailuresReachTheClient
    RowsNameTheirMember
    NothingIsWithheld
    DisplayShowsLastMember
PROPERTY
    AnswersGetThrough
CHECK_DEADLOCK FALSE
