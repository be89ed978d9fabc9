SPECIFICATION AdoptSpec
CONSTANTS
    Agents = {main}
    Tool = "adopt"
PROPERTY NeverClobbers
